---- MODULE Spec2Model ----
(***************************************************************************)
(* rlox: scanner (src/src/scanner.rs), recursive-descent parser            *)
(* (src/src/parser.rs) and tree-walking interpreter                        *)
(* (src/src/interpreter.rs).                                               *)
(*                                                                         *)
(* Three specifications, one per component:                                *)
(*   SpecScanner      one ScanToken step per iteration of scan_tokens      *)
(*   SpecParser       one ParseDeclaration step per iteration of parse     *)
(*   SpecInterpreter  one Interpret step per call of Interpreter::interpret*)
(* Characters are one-character strings, a String is a sequence of them.   *)
(* Rust indices are 0-based, TLA+ sequences 1-based: source[i] in the code *)
(* is source[i + 1] here.                                                  *)
(***************************************************************************)
EXTENDS Integers, Sequences, FiniteSets, TLC

VARIABLES
    \* Scanner (scanner.rs:62-69)
    source, tokens, start, current, line,
    scan_status,   \* "running", "done", or the panic that ended the scan
    unexpected,    \* positions reported by println!("Unexpected character")
    spans,         \* per emitted token: <<start, current>> when it was pushed
    scan_output,   \* scanner.tokens as read by the caller after scan_tokens returns
                   \* (<<>> = nothing handed over, <<toks>> = handed over)
    \* Parser (parser.rs:130-133) and the locals of Parser::parse (parser.rs:220-221)
    program,         \* the words the token sequence was made of (the input)
    parser_tokens,   \* Parser.tokens
    parser_current,  \* Parser.current
    statments, errors,
    parse_status,    \* "idle", "parsing", "done", or "overflow" (stack exhausted)
    parse_result,    \* what parse returned, once it has
    \* Interpreter (interpreter.rs:62-65)
    environment,     \* Interpreter.environment.scopes
    output,          \* the values printed so far
    interp_status,   \* "idle", "ready" (between calls), "panic" or "diverged"
    calls,           \* calls of interpret so far
    last_call,       \* the last call: its program, the scopes, their number and
                     \* the output when it began, and what it returned
    evaluate_input,  \* the expression handed to Interpreter::evaluate
    evaluate_output  \* what that call of evaluate returned, once it has

scanner_vars == <<source, tokens, start, current, line, scan_status, unexpected,
                  spans, scan_output>>

parser_vars == <<program, parser_tokens, parser_current, statments, errors,
                 parse_status, parse_result>>

interpreter_vars == <<environment, output, interp_status, calls, last_call,
                      evaluate_input, evaluate_output>>

vars == <<scanner_vars, parser_vars, interpreter_vars>>

-----------------------------------------------------------------------------
(***************************************************************************)
(* Bounds of the model                                                     *)
(***************************************************************************)
MaxSrcLen == 4      \* sources over the whole alphabet
MaxNumLen == 5      \* sources over the numeric alphabet (digits and dots)
MaxSoupLen == 3     \* token sequences over single tokens, in any order
MaxStmts == 3       \* token sequences made of statements, well-formed or not
MaxCalls == 3       \* calls of interpret on one Interpreter
MaxIterations == 4  \* iterations of one while loop the model follows
MaxNumber == 1      \* the whole numbers among the operands handed to evaluate

(***************************************************************************)
(* Characters                                                              *)
(***************************************************************************)
None == "<none>"    \* Option::None of a peeked character

Digits == {"0", "1", "2", "3", "4", "5", "6", "7", "8", "9"}
Letters == {"a", "b", "c", "d", "e", "f", "g", "h", "i", "j", "k", "l", "m",
            "n", "o", "p", "q", "r", "s", "t", "u", "v", "w", "x", "y", "z"}
Whitespace == {" ", "\n", "\t", "\r"}

Alphabet == {"1", ".", "/", "\n", " ", "@", "\"", "o", "r", "="}
NumAlphabet == {"1", "2", "."}

SeqsUpTo(S, n) == UNION {[1..k -> S] : k \in 0..n}

Sources == SeqsUpTo(Alphabet, MaxSrcLen) \cup SeqsUpTo(NumAlphabet, MaxNumLen)

(***************************************************************************)
(* Scanner                                                                 *)
(***************************************************************************)
is_digit(c) == c \in Digits
is_whitespace(c) == c \in Whitespace
is_ascii_alphabetic(c) == c \in Letters
is_ascii_alphanumeric(c) == c \in Letters \cup Digits

reserved_words ==
    << <<"and", <<"a","n","d">> >>,       <<"class", <<"c","l","a","s","s">> >>,
       <<"else", <<"e","l","s","e">> >>,  <<"false", <<"f","a","l","s","e">> >>,
       <<"fun", <<"f","u","n">> >>,       <<"for", <<"f","o","r">> >>,
       <<"if", <<"i","f">> >>,            <<"nil", <<"n","i","l">> >>,
       <<"or", <<"o","r">> >>,            <<"print", <<"p","r","i","n","t">> >>,
       <<"return", <<"r","e","t","u","r","n">> >>,
       <<"super", <<"s","u","p","e","r">> >>,
       <<"this", <<"t","h","i","s">> >>,  <<"true", <<"t","r","u","e">> >>,
       <<"var", <<"v","a","r">> >>,       <<"while", <<"w","h","i","l","e">> >> >>

KeywordType ==
    [k \in {reserved_words[i][1] : i \in 1..Len(reserved_words)} |->
        CASE k = "and" -> "And"     [] k = "class" -> "Class" [] k = "else" -> "Else"
          [] k = "false" -> "False" [] k = "fun" -> "Fun"     [] k = "for" -> "For"
          [] k = "if" -> "If"       [] k = "nil" -> "Nil"     [] k = "or" -> "Or"
          [] k = "print" -> "Print" [] k = "return" -> "Return"
          [] k = "super" -> "Super" [] k = "this" -> "This"   [] k = "true" -> "True"
          [] k = "var" -> "Var"     [] k = "while" -> "While"]

\* reserved_words.get(&identifier): <<>> when absent, <<token_type>> when present
reserved_words_get(identifier) ==
    LET hits == {i \in 1..Len(reserved_words) : reserved_words[i][2] = identifier}
    IN IF hits = {} THEN <<>>
       ELSE <<KeywordType[reserved_words[CHOOSE i \in hits : TRUE][1]]>>

Scanner_new(src) ==
    [source |-> src, tokens |-> <<>>, start |-> 0, current |-> 0, line |-> 1,
     status |-> "running", unexpected |-> <<>>, spans |-> <<>>]

is_at_end(S) == S.current >= Len(S.source)

\* self.source[self.current]; the caller has to know the index is in range
current_char(S) == S.source[S.current + 1]

peek(S) == IF is_at_end(S) THEN None ELSE current_char(S)

peek_next(S) ==
    IF S.current + 1 >= Len(S.source) THEN None ELSE S.source[S.current + 2]

\* advance that forgets to count the line break
advance_no_line(S) ==
    IF S.current >= Len(S.source)
    THEN [S EXCEPT !.status = "panic_index"]
    ELSE [S EXCEPT !.current = @ + 1]

\* advance: an index past the end panics (index out of bounds in current_char)
advance(S) ==
    IF S.current >= Len(S.source)
    THEN [S EXCEPT !.status = "panic_index"]
    ELSE [S EXCEPT !.line = IF current_char(S) = "\n" THEN @ + 1 ELSE @,
                   !.current = @ + 1]

\* match_char returns (matched, scanner); the matched character is not counted
\* as a line break
match_char_hit(S, expected) == ~is_at_end(S) /\ current_char(S) = expected
match_char(S, expected) ==
    IF match_char_hit(S, expected) THEN [S EXCEPT !.current = @ + 1] ELSE S

add_token(S, token, lexeme) ==
    [S EXCEPT !.tokens = Append(@, [token_type |-> token, line |-> S.line,
                                    lexeme |-> lexeme, number |-> <<>>]),
              !.spans = Append(@, <<S.start, S.current>>)]

add_number_token(S, lexeme, number) ==
    [S EXCEPT !.tokens = Append(@, [token_type |-> "Number", line |-> S.line,
                                    lexeme |-> lexeme, number |-> <<number>>]),
              !.spans = Append(@, <<S.start, S.current>>)]

\* self.source[self.start..self.current]
lexeme_of(S) == SubSeq(S.source, S.start + 1, S.current)

(***************************************************************************)
(* str::parse::<f64> on the lexemes number() collects (digits and dots):   *)
(* Ok for digits with at most one '.', Err otherwise.  A float is kept as  *)
(* [m, d], the decimal m / 10^d with no trailing zero in the fraction.     *)
(***************************************************************************)
DigitVal == [c \in Digits |->
    CASE c = "0" -> 0 [] c = "1" -> 1 [] c = "2" -> 2 [] c = "3" -> 3 [] c = "4" -> 4
      [] c = "5" -> 5 [] c = "6" -> 6 [] c = "7" -> 7 [] c = "8" -> 8 [] c = "9" -> 9]

RECURSIVE digits_value(_)
digits_value(ds) ==
    IF ds = <<>> THEN 0
    ELSE 10 * digits_value(SubSeq(ds, 1, Len(ds) - 1)) + DigitVal[ds[Len(ds)]]

RECURSIVE normal_float(_, _)
normal_float(m, d) ==
    IF d > 0 /\ m % 10 = 0 THEN normal_float(m \div 10, d - 1) ELSE [m |-> m, d |-> d]

\* <<>> = Err(ParseFloatError), <<f>> = Ok(f)
parse_f64(str) ==
    LET dots == {i \in 1..Len(str) : str[i] = "."}
        digs == {i \in 1..Len(str) : str[i] \in Digits}
    IN IF Cardinality(dots) > 1 \/ digs = {} \/ dots \cup digs # 1..Len(str)
       THEN <<>>
       ELSE IF dots = {}
            THEN <<normal_float(digits_value(str), 0)>>
            ELSE LET p == CHOOSE i \in dots : TRUE
                     ds == SubSeq(str, 1, p - 1) \o SubSeq(str, p + 1, Len(str))
                 IN <<normal_float(digits_value(ds), Len(str) - p)>>

RECURSIVE number_loop(_)
number_loop(S) ==
    LET next_character == peek(S)
        after_next_is_digit == is_digit(peek_next(S))
    IN IF next_character # None
          /\ (is_digit(next_character)
              \/ (next_character = "." /\ after_next_is_digit))
       THEN number_loop(advance(S))
       ELSE S

number(S) ==
    LET S1 == number_loop(S)
        number_str == lexeme_of(S1)
        parsed == parse_f64(number_str)
    IN IF parsed = <<>>
       THEN [S1 EXCEPT !.status = "panic_unwrap"]
       ELSE add_number_token(S1, number_str, parsed[1])

RECURSIVE string_loop(_, _)
string_loop(S, s) ==
    CASE peek(S) = None -> [S EXCEPT !.status = "panic_unterminated"]
      [] peek(S) = "\"" -> add_token(advance(S), "String", s)
      [] OTHER -> string_loop(advance(S), Append(s, current_char(S)))

\* string() that ends the literal at end-of-input instead of aborting
string_end_of_input_closes(S) ==
    LET R == string_loop(S, <<>>)
    IN IF R.status = "panic_unterminated"
       THEN add_token([R EXCEPT !.status = "running"], "String",
                      SubSeq(R.source, R.start + 2, R.current))
       ELSE R

string(S) == string_loop(S, <<>>)

RECURSIVE identifier_loop(_)
identifier_loop(S) ==
    IF peek(S) # None /\ is_ascii_alphanumeric(peek(S))
    THEN identifier_loop(advance(S))
    ELSE S

identifier(S) ==
    LET S1 == identifier_loop(S)
        ident == lexeme_of(S1)
        token == reserved_words_get(ident)
    IN IF token # <<>> THEN add_token(S1, token[1], ident)
       ELSE add_token(S1, "Identifier", ident)

\* the body of `while self.peek() != Some('\n') { self.advance(); }`
RECURSIVE comment_loop(_)
comment_loop(S) ==
    IF S.status # "running" THEN S
    ELSE IF peek(S) # "\n" THEN comment_loop(advance(S)) ELSE S

\* one- or two-character operator: `if self.match_char('=') {two} else {one}`
one_or_two(S, second, two, two_lexeme, one, one_lexeme) ==
    IF match_char_hit(S, second)
    THEN add_token(match_char(S, second), two, two_lexeme)
    ELSE add_token(S, one, one_lexeme)

slash(S) ==
    IF match_char_hit(S, "/")
    THEN comment_loop(match_char(S, "/"))
    ELSE add_token(S, "Slash", <<"/">>)

\* an unexpected character that is reported and also pushed as a token
unexpected_character_emits(S, c) ==
    [add_token(S, "Identifier", <<c>>) EXCEPT !.unexpected = Append(@, S.start)]

\* the last arm of scan_token: println!("Unexpected character {:?}", c)
unexpected_character(S, c) == [S EXCEPT !.unexpected = Append(@, S.start)]

SingleCharToken ==
    [c \in {".", ",", ";", "+", "-", "*", "(", ")", "{", "}"} |->
        CASE c = "." -> "Dot"       [] c = "," -> "Comma"      [] c = ";" -> "Semicolon"
          [] c = "+" -> "Plus"      [] c = "-" -> "Minus"      [] c = "*" -> "Star"
          [] c = "(" -> "LeftParen" [] c = ")" -> "RightParen"
          [] c = "{" -> "LeftBrace" [] c = "}" -> "RightBrace"]

\* scan_token: called with !is_at_end(), so its first advance is in range
scan_token(S0) ==
    LET c == current_char(S0)
        S == advance(S0)
    IN CASE is_whitespace(c) -> S
         [] c \in DOMAIN SingleCharToken -> add_token(S, SingleCharToken[c], <<c>>)
         [] c = "!" -> one_or_two(S, "=", "BangEqual", <<"!", "=">>, "Bang", <<"!">>)
         [] c = "=" -> one_or_two(S, "=", "EqualEqual", <<"=", "=">>, "Equal", <<"=">>)
         [] c = "<" -> one_or_two(S, "=", "LessEqual", <<"<", "=">>, "Less", <<"<">>)
         [] c = ">" -> one_or_two(S, "=", "GreaterEqual", <<">", "=">>, "Greater", <<">">>)
         [] c = "/" -> slash(S)
         [] c = "\"" -> string(S)
         [] is_digit(c) -> number(S)
         [] is_ascii_alphabetic(c) -> identifier(S)
         [] OTHER -> unexpected_character(S, c)

\* one iteration of the loop of scan_tokens
scan_tokens_step(S) == scan_token([S EXCEPT !.start = S.current])

\* the exit of scan_tokens: self.add_token(TokenType::EOF, "")
scan_tokens_exit(S) == [add_token(S, "EOF", <<>>) EXCEPT !.status = "done"]

\* scan_tokens as a function of the scanner: the scanner when it returns or panics
RECURSIVE scan_tokens(_)
scan_tokens(S) ==
    IF S.status # "running" THEN S
    ELSE IF is_at_end(S) THEN scan_tokens_exit(S)
    ELSE scan_tokens(scan_tokens_step(S))

(***************************************************************************)
(* Values and syntax trees (parser.rs:6-68)                                *)
(* A Value is a record with one field per variant, the unused ones at a    *)
(* fixed filler, so that derived PartialEq is record equality.             *)
(***************************************************************************)
Zero == [m |-> 0, d |-> 0]
Value_String(s) == [t |-> "String", n |-> Zero, s |-> s, b |-> FALSE]
Value_Number(n) == [t |-> "Number", n |-> n, s |-> <<>>, b |-> FALSE]
Value_Boolean(b) == [t |-> "Boolean", n |-> Zero, s |-> <<>>, b |-> b]
Value_Nil == [t |-> "Nil", n |-> Zero, s |-> <<>>, b |-> FALSE]

Expr_Binary(left, operator, right) ==
    [kind |-> "Binary", left |-> left, operator |-> operator, right |-> right]
Expr_Logical(left, operator, right) ==
    [kind |-> "Logical", left |-> left, operator |-> operator, right |-> right]
Expr_Unary(operator, right) == [kind |-> "Unary", operator |-> operator, right |-> right]
Expr_Grouping(e) == [kind |-> "Grouping", expr |-> e]
Expr_Literal(v) == [kind |-> "Literal", value |-> v]
Expr_Variable(name) == [kind |-> "Variable", name |-> name]
Expr_Assign(name, value) == [kind |-> "Assign", name |-> name, value |-> value]

\* Option fields are <<>> (None) or <<x>> (Some(x))
Stmt_Expression(e) == [kind |-> "Expression", expr |-> e]
Stmt_Print(e) == [kind |-> "Print", expr |-> e]
Stmt_Var(name, initializer) == [kind |-> "Var", name |-> name, initializer |-> initializer]
Stmt_Block(ss) == [kind |-> "Block", statments |-> ss]
Stmt_If(c, th, el) ==
    [kind |-> "If", condition |-> c, then_branch |-> th, else_branch |-> el]
Stmt_While(c, body) == [kind |-> "While", condition |-> c, body |-> body]

ParsingError(error_type, message, ln, expression) ==
    [error_type |-> error_type, message |-> message, line |-> ln,
     expression |-> expression]

(***************************************************************************)
(* Parser primitives (parser.rs:140-217).  T is Parser.tokens, cur is      *)
(* Parser.current.  A rule returns [st, val, errs, cur]: st is "ok" with   *)
(* the node in val, "err" with the errors in errs, or "overflow" when the  *)
(* call stack ran out; cur is Parser.current when the rule returned.       *)
(***************************************************************************)
Ok(v, cur) == [st |-> "ok", val |-> v, errs |-> <<>>, cur |-> cur]
Err(es, cur) == [st |-> "err", val |-> <<>>, errs |-> es, cur |-> cur]
Overflow(cur) == [st |-> "overflow", val |-> <<>>, errs |-> <<>>, cur |-> cur]

peak(T, cur) == T[cur + 1]
previous(T, cur) == T[cur]
parser_is_at_end(T, cur) == peak(T, cur).token_type = "EOF"
check(T, cur, token_type) ==
    IF parser_is_at_end(T, cur) THEN FALSE ELSE peak(T, cur).token_type = token_type
\* match_tokens: whether one of the types is next; when it is, current moves by one
match_tokens(T, cur, token_types) == \E ty \in token_types : check(T, cur, ty)

new_error_on_line(error_type, message, ln, expression) ==
    ParsingError(error_type, message, ln, expression)
new_error(T, cur, error_type, message, expression) ==
    new_error_on_line(error_type, message, previous(T, cur).line, expression)
new_expr_stmt_error(T, cur, message, expr) == new_error(T, cur, "Stmt", message, <<expr>>)
\* a statement error that carries an expression
new_stmt_error_with_expr(T, cur, message) ==
    new_error(T, cur, "Stmt", message, <<Expr_Literal(Value_Nil)>>)
new_stmt_error(T, cur, message) == new_error(T, cur, "Stmt", message, <<>>)
new_expr_error(T, cur, message) == new_error(T, cur, "Expr", message, <<>>)
new_expr_error_on_line(message, ln) == new_error_on_line("Expr", message, ln, <<>>)

(***************************************************************************)
(* Expression rules (parser.rs:235-360, 479-505).  d is the number of      *)
(* stack frames left: a call with none left overflows the stack.           *)
(* or, and, equality, comparison, term and factor are the same loop over   *)
(* different operators and operands: binary_rule at levels 1 to 6.         *)
(***************************************************************************)
LevelOr == 1
LevelAnd == 2
LevelEquality == 3
LevelComparison == 4
LevelTerm == 5
LevelFactor == 6

LevelOperators ==
    << {"Or"}, {"And"}, {"BangEqual", "EqualEqual"},
       {"Less", "LessEqual", "Greater", "GreaterEqual"},
       {"Minus", "Plus"}, {"Star", "Slash"} >>

\* every level building a Binary node
level_node_binary(level, left, operator, right) == Expr_Binary(left, operator, right)

\* the node a level builds from (expr, operator, right)
level_node(level, left, operator, right) ==
    IF level <= LevelAnd THEN Expr_Logical(left, operator, right)
    ELSE Expr_Binary(left, operator, right)

\* `call()?`: an Err (or an overflow) of the call is returned at once,
\* otherwise the code after it runs with the call's result
Try(r, rest(_)) == IF r.st # "ok" THEN r ELSE rest(r)

\* a call whose Err is handled by the caller: only an overflow ends the caller
Returned(r, rest(_)) == IF r.st = "overflow" THEN r ELSE rest(r)

RECURSIVE assigment(_, _, _)
RECURSIVE binary_rule(_, _, _, _)
RECURSIVE binary_loop(_, _, _, _, _)
RECURSIVE unary(_, _, _)
RECURSIVE primary(_, _, _)

expression(T, cur, d) ==
    IF d = 0 THEN Overflow(cur) ELSE assigment(T, cur, d - 1)

\* a loop that takes the rest of the chain as its right operand
binary_loop_right(T, cur, d, level, expr) ==
    IF match_tokens(T, cur, LevelOperators[level])
    THEN Try(binary_rule(T, cur + 1, d - 1, level),
             LAMBDA right :
                 Ok(level_node(level, expr, previous(T, cur + 1), right.val),
                    right.cur))
    ELSE Ok(expr, cur)

\* `while self.match_tokens(ops) { operator; right = operand()?; expr = node }`
\* where the operand rule of a level is the next level, unary below factor
binary_loop(T, cur, d, level, expr) ==
    IF match_tokens(T, cur, LevelOperators[level])
    THEN Try(IF level = LevelFactor THEN unary(T, cur + 1, d - 1)
             ELSE binary_rule(T, cur + 1, d - 1, level + 1),
             LAMBDA right :
                 binary_loop(T, right.cur, d, level,
                             level_node(level, expr, previous(T, cur + 1), right.val)))
    ELSE Ok(expr, cur)

binary_rule(T, cur, d, level) ==
    IF d = 0 THEN Overflow(cur)
    ELSE Try(IF level = LevelFactor THEN unary(T, cur, d - 1)
             ELSE binary_rule(T, cur, d - 1, level + 1),
             LAMBDA first : binary_loop(T, first.cur, d, level, first.val))

assigment(T, cur, d) ==
    IF d = 0 THEN Overflow(cur)
    ELSE Try(binary_rule(T, cur, d - 1, LevelOr),
             LAMBDA expr :
                 IF match_tokens(T, expr.cur, {"Equal"})
                 THEN Try(assigment(T, expr.cur + 1, d - 1),
                          LAMBDA value :
                              IF expr.val.kind = "Variable"
                              THEN Ok(Expr_Assign(expr.val.name, value.val), value.cur)
                              ELSE Err(<<new_expr_error_on_line(
                                             "Invalid assigment target",
                                             previous(T, expr.cur + 1).line)>>,
                                       value.cur))
                 ELSE expr)

unary(T, cur, d) ==
    IF d = 0 THEN Overflow(cur)
    ELSE IF match_tokens(T, cur, {"Bang", "Minus"})
    THEN Try(unary(T, cur + 1, d - 1),
             LAMBDA right :
                 Ok(Expr_Unary(previous(T, cur + 1), right.val), right.cur))
    ELSE primary(T, cur, d - 1)

\* primary: when no literal or identifier is next, `(` is consumed if it is
\* there and expression() is called whether it was there or not
primary(T, cur, d) ==
    IF d = 0 THEN Overflow(cur)
    ELSE CASE match_tokens(T, cur, {"True"}) ->
                Ok(Expr_Literal(Value_Boolean(TRUE)), cur + 1)
           [] match_tokens(T, cur, {"False"}) ->
                Ok(Expr_Literal(Value_Boolean(FALSE)), cur + 1)
           [] match_tokens(T, cur, {"Nil"}) -> Ok(Expr_Literal(Value_Nil), cur + 1)
           [] match_tokens(T, cur, {"String"}) ->
                Ok(Expr_Literal(Value_String(previous(T, cur + 1).lexeme)), cur + 1)
           [] match_tokens(T, cur, {"Number"}) ->
                Ok(Expr_Literal(Value_Number(previous(T, cur + 1).number[1])), cur + 1)
           [] match_tokens(T, cur, {"Identifier"}) ->
                Ok(Expr_Variable(previous(T, cur + 1)), cur + 1)
           [] OTHER ->
                Try(expression(T, IF match_tokens(T, cur, {"LeftParen"}) THEN cur + 1
                                  ELSE cur, d - 1),
                    LAMBDA expr :
                        IF ~match_tokens(T, expr.cur, {"RightParen"})
                        THEN Err(<<new_expr_error(T, expr.cur,
                                                  "Unterminated parenthesize")>>,
                                 expr.cur)
                        ELSE Ok(Expr_Grouping(expr.val), expr.cur + 1))

(***************************************************************************)
(* Statement rules (parser.rs:362-477, 507-593)                            *)
(***************************************************************************)
RECURSIVE declaration(_, _, _)
RECURSIVE statment(_, _, _)
RECURSIVE block_loop(_, _, _, _, _)

print_statment(T, cur, d) ==
    IF d = 0 THEN Overflow(cur)
    ELSE Try(expression(T, cur, d - 1),
             LAMBDA expr :
                 IF ~match_tokens(T, expr.cur, {"Semicolon"})
                 THEN Err(<<new_stmt_error(T, expr.cur, "Expect ';' after value")>>,
                          expr.cur)
                 ELSE Ok(Stmt_Print(expr.val), expr.cur + 1))

expression_statment(T, cur, d) ==
    IF d = 0 THEN Overflow(cur)
    ELSE Try(expression(T, cur, d - 1),
             LAMBDA expr :
                 IF ~match_tokens(T, expr.cur, {"Semicolon"})
                 THEN Err(<<new_expr_stmt_error(T, expr.cur,
                                                "Expect ';' after expression",
                                                expr.val)>>, expr.cur)
                 ELSE Ok(Stmt_Expression(expr.val), expr.cur + 1))

\* called after `var` was consumed
var_declaration(T, cur, d) ==
    IF d = 0 THEN Overflow(cur)
    ELSE IF ~match_tokens(T, cur, {"Identifier"})
    THEN Err(<<new_stmt_error(T, cur, "Expect variable name.")>>, cur)
    ELSE LET name == previous(T, cur + 1)
             has_init == match_tokens(T, cur + 1, {"Equal"})
         IN Try(IF has_init THEN expression(T, cur + 2, d - 1) ELSE Ok(<<>>, cur + 1),
                LAMBDA init :
                    IF ~match_tokens(T, init.cur, {"Semicolon"})
                    THEN Err(<<new_stmt_error(T, init.cur,
                                              "Expect ';' after variable declaration.")>>,
                             init.cur)
                    ELSE Ok(Stmt_Var(name, IF has_init THEN <<init.val>> ELSE <<>>),
                            init.cur + 1))

\* the loop of block_statment: declarations until `}` or end-of-input,
\* nested errors appended, not returned
block_loop(T, cur, d, stmts, errs) ==
    IF ~check(T, cur, "RightBrace") /\ ~parser_is_at_end(T, cur)
    THEN Returned(declaration(T, cur, d - 1),
                  LAMBDA r :
                      IF r.st = "ok"
                      THEN block_loop(T, r.cur, d, Append(stmts, r.val), errs)
                      ELSE block_loop(T, r.cur, d, stmts, errs \o r.errs))
    ELSE [st |-> "ok", val |-> stmts, errs |-> errs, cur |-> cur]

\* called after `{` was consumed
block_statment(T, cur, d) ==
    IF d = 0 THEN Overflow(cur)
    ELSE Returned(block_loop(T, cur, d, <<>>, <<>>),
                  LAMBDA body :
                      LET closed == match_tokens(T, body.cur, {"RightBrace"})
                          all == IF closed THEN body.errs
                                 ELSE Append(body.errs,
                                             new_stmt_error(T, body.cur,
                                                            "Expect '}' after block"))
                          after == IF closed THEN body.cur + 1 ELSE body.cur
                      IN IF all = <<>> THEN Ok(Stmt_Block(body.val), after)
                         ELSE Err(all, after))

\* `(` condition `)` of if and while: the errors found and where parsing stands;
\* a failed condition and a missing `)` are recorded and parsing goes on
condition_clause(T, cur, d, missing_paren) ==
    Returned(expression(T, cur, d - 1),
             LAMBDA c :
                 LET closed == match_tokens(T, c.cur, {"RightParen"})
                 IN [st |-> "ok", val |-> c.val,
                     errs |-> IF closed THEN c.errs
                              ELSE Append(c.errs, new_stmt_error(T, c.cur, missing_paren)),
                     cur |-> IF closed THEN c.cur + 1 ELSE c.cur])

\* called after `if` was consumed
if_statment(T, cur, d) ==
    IF d = 0 THEN Overflow(cur)
    ELSE IF ~match_tokens(T, cur, {"LeftParen"})
    THEN Err(<<new_stmt_error(T, cur, "Expect '(' after if .")>>, cur)
    ELSE Returned(condition_clause(T, cur + 1, d, "Expect ')' after if condition."),
          LAMBDA c :
           Returned(statment(T, c.cur, d - 1),
            LAMBDA th :
             Returned(IF match_tokens(T, th.cur, {"Else"})
                      THEN statment(T, th.cur + 1, d - 1)
                      ELSE Ok(<<>>, th.cur),
              LAMBDA el :
                  LET has_else == match_tokens(T, th.cur, {"Else"})
                      es == c.errs \o th.errs \o el.errs
                  IN IF es = <<>>
                     THEN Ok(Stmt_If(c.val, th.val,
                                     IF has_else THEN <<el.val>> ELSE <<>>), el.cur)
                     ELSE Err(es, el.cur))))

\* called after `while` was consumed
while_statment(T, cur, d) ==
    IF d = 0 THEN Overflow(cur)
    ELSE IF ~match_tokens(T, cur, {"LeftParen"})
    THEN Err(<<new_stmt_error(T, cur, "Expect '(' after 'while'.")>>, cur)
    ELSE Returned(condition_clause(T, cur + 1, d, "Expect ')' after condition."),
          LAMBDA c :
           Returned(statment(T, c.cur, d - 1),
            LAMBDA body :
                IF c.errs \o body.errs = <<>>
                THEN Ok(Stmt_While(c.val, body.val), body.cur)
                ELSE Err(c.errs \o body.errs, body.cur)))

\* an optional clause of `for`: absent when `closer` is next, else an expression
\* whose failure is recorded and parsing goes on
for_clause(T, cur, d, closer) ==
    IF check(T, cur, closer) THEN [st |-> "ok", val |-> <<>>, errs |-> <<>>, cur |-> cur]
    ELSE Returned(expression(T, cur, d - 1),
                  LAMBDA e :
                      IF e.st = "ok"
                      THEN [st |-> "ok", val |-> <<e.val>>, errs |-> <<>>, cur |-> e.cur]
                      ELSE [st |-> "ok", val |-> <<>>, errs |-> e.errs, cur |-> e.cur])

\* the initializer of `for`: a var declaration, an expression statement or `;`
for_initializer(T, cur, d) ==
    IF match_tokens(T, cur, {"Var"})
    THEN Try(var_declaration(T, cur + 1, d - 1), LAMBDA r : Ok(<<r.val>>, r.cur))
    ELSE IF ~match_tokens(T, cur, {"Semicolon"})
    THEN Try(expression_statment(T, cur, d - 1), LAMBDA r : Ok(<<r.val>>, r.cur))
    ELSE Ok(<<>>, cur + 1)

\* for_desugar with the increment run before the body
for_desugar_increment_first(initializer, condition, increment, body) ==
    LET b1 == IF increment # <<>>
              THEN Stmt_Block(<<Stmt_Expression(increment[1]), body>>)
              ELSE body
        cond == IF condition # <<>> THEN condition[1]
                ELSE Expr_Literal(Value_Boolean(TRUE))
        loop == Stmt_While(cond, b1)
    IN IF initializer # <<>> THEN Stmt_Block(<<initializer[1], loop>>) ELSE loop

\* for_desugar with both blocks whatever clauses are there
for_desugar_always_blocks(initializer, condition, increment, body) ==
    LET b1 == Stmt_Block(<<body>> \o IF increment # <<>>
                                     THEN <<Stmt_Expression(increment[1])>> ELSE <<>>)
        cond == IF condition # <<>> THEN condition[1]
                ELSE Expr_Literal(Value_Boolean(TRUE))
    IN Stmt_Block(initializer \o <<Stmt_While(cond, b1)>>)

\* parser.rs:576-589: the loop a `for` without errors stands for
for_desugar(initializer, condition, increment, body) ==
    LET b1 == IF increment # <<>>
              THEN Stmt_Block(<<body, Stmt_Expression(increment[1])>>)
              ELSE body
        cond == IF condition # <<>> THEN condition[1]
                ELSE Expr_Literal(Value_Boolean(TRUE))
        loop == Stmt_While(cond, b1)
    IN IF initializer # <<>> THEN Stmt_Block(<<initializer[1], loop>>) ELSE loop

\* the body of `for` and its result, after the clauses were parsed
for_body(T, d, init, cond, incr) ==
    LET closed == match_tokens(T, incr.cur, {"RightParen"})
        es == IF closed THEN cond.errs \o incr.errs
              ELSE Append(cond.errs \o incr.errs,
                          new_stmt_error(T, incr.cur, "Expect ')' after for clauses."))
    IN Returned(statment(T, IF closed THEN incr.cur + 1 ELSE incr.cur, d - 1),
                LAMBDA body :
                    CASE body.st = "err" -> Err(es \o body.errs, body.cur)
                      [] es # <<>> -> Err(es, body.cur)
                      [] OTHER -> Ok(for_desugar(init.val, cond.val, incr.val, body.val),
                                     body.cur))

\* called after `for` was consumed
for_statment(T, cur, d) ==
    IF d = 0 THEN Overflow(cur)
    ELSE IF ~match_tokens(T, cur, {"LeftParen"})
    THEN Err(<<new_stmt_error(T, cur, "Expect '(' after 'for'.")>>, cur)
    ELSE Try(for_initializer(T, cur + 1, d),
          LAMBDA init :
           Returned(for_clause(T, init.cur, d, "Semicolon"),
            LAMBDA cond :
                IF ~match_tokens(T, cond.cur, {"Semicolon"})
                THEN Err(Append(cond.errs,
                                new_stmt_error(T, cond.cur,
                                               "Expect ';' after loop condition.")),
                         cond.cur)
                ELSE Returned(for_clause(T, cond.cur + 1, d, "RightParen"),
                              LAMBDA incr : for_body(T, d, init, cond, incr))))

statment(T, cur, d) ==
    IF d = 0 THEN Overflow(cur)
    ELSE CASE match_tokens(T, cur, {"For"}) -> for_statment(T, cur + 1, d - 1)
           [] match_tokens(T, cur, {"While"}) -> while_statment(T, cur + 1, d - 1)
           [] match_tokens(T, cur, {"Print"}) -> print_statment(T, cur + 1, d - 1)
           [] match_tokens(T, cur, {"LeftBrace"}) -> block_statment(T, cur + 1, d - 1)
           [] match_tokens(T, cur, {"If"}) -> if_statment(T, cur + 1, d - 1)
           [] OTHER -> expression_statment(T, cur, d - 1)

declaration(T, cur, d) ==
    IF d = 0 THEN Overflow(cur)
    ELSE IF match_tokens(T, cur, {"Var"}) THEN var_declaration(T, cur + 1, d - 1)
    ELSE statment(T, cur, d - 1)

(***************************************************************************)
(* f64 arithmetic on the floats of the model.  [m, d] with d >= 0 is the   *)
(* decimal m / 10^d; d = -1 marks the non-finite values: m = 1 is inf,     *)
(* m = -1 is -inf, m = 0 is NaN.  A quotient is cut after FloatDigits      *)
(* decimals.                                                               *)
(***************************************************************************)
FloatDigits == 3

NaN == [m |-> 0, d |-> -1]
Infinity(sign) == [m |-> sign, d |-> -1]
IsFinite(x) == x.d >= 0
IsNaN(x) == x = NaN
Sign(i) == IF i > 0 THEN 1 ELSE IF i < 0 THEN -1 ELSE 0

RECURSIVE Pow10(_)
Pow10(k) == IF k <= 0 THEN 1 ELSE 10 * Pow10(k - 1)

Max(a, b) == IF a >= b THEN a ELSE b
\* the mantissa of x at d decimals (d >= x.d)
Scaled(x, d) == x.m * Pow10(d - x.d)

f64_neg(x) == [x EXCEPT !.m = 0 - @]

f64_add(a, b) ==
    CASE IsNaN(a) \/ IsNaN(b) -> NaN
      [] ~IsFinite(a) /\ ~IsFinite(b) -> IF a.m = b.m THEN a ELSE NaN
      [] ~IsFinite(a) -> a
      [] ~IsFinite(b) -> b
      [] OTHER -> LET d == Max(a.d, b.d)
                  IN normal_float(Scaled(a, d) + Scaled(b, d), d)

f64_sub(a, b) == f64_add(a, f64_neg(b))

f64_mul(a, b) ==
    CASE IsNaN(a) \/ IsNaN(b) -> NaN
      [] ~IsFinite(a) \/ ~IsFinite(b) ->
            IF a.m = 0 \/ b.m = 0 THEN NaN ELSE Infinity(Sign(a.m) * Sign(b.m))
      [] OTHER -> normal_float(a.m * b.m, a.d + b.d)

f64_div(a, b) ==
    CASE IsNaN(a) \/ IsNaN(b) -> NaN
      [] ~IsFinite(a) /\ ~IsFinite(b) -> NaN
      [] ~IsFinite(a) -> Infinity(a.m * (IF b.m < 0 THEN -1 ELSE 1))
      [] ~IsFinite(b) -> Zero
      [] b.m = 0 -> IF a.m = 0 THEN NaN ELSE Infinity(Sign(a.m))
      [] OTHER ->
            LET num == a.m * Pow10(FloatDigits + b.d)
                den == b.m * Pow10(a.d)
                q == Sign(num) * Sign(den)
                     * ((num * Sign(num)) \div (den * Sign(den)))
            IN normal_float(q, FloatDigits)

f64_lt(a, b) ==
    CASE IsNaN(a) \/ IsNaN(b) -> FALSE
      [] ~IsFinite(a) /\ ~IsFinite(b) -> a.m < b.m
      [] ~IsFinite(a) -> a.m < 0
      [] ~IsFinite(b) -> b.m > 0
      [] OTHER -> LET d == Max(a.d, b.d) IN Scaled(a, d) < Scaled(b, d)

f64_eq(a, b) == ~IsNaN(a) /\ ~IsNaN(b) /\ a = b

\* derived PartialEq of Value (parser.rs:6): same variant and equal payload
value_eq(x, y) ==
    /\ x.t = y.t
    /\ CASE x.t = "Number" -> f64_eq(x.n, y.n)
         [] OTHER -> x = y

\* Value::is_truthy (parser.rs:15-21)
is_truthy(v) ==
    CASE v.t = "Nil" -> FALSE
      [] v.t = "Boolean" -> v.b
      [] OTHER -> TRUE

(***************************************************************************)
(* Environment (interpreter.rs:8-60): scopes is a sequence of scopes, the  *)
(* global one first; a scope is a function from names to values.           *)
(***************************************************************************)
EmptyScope == [x \in {} |-> Value_Nil]
Environment_new == <<EmptyScope>>

Insert(scope, name, value) ==
    [x \in DOMAIN scope \cup {name} |-> IF x = name THEN value ELSE scope[x]]

\* the outermost scope that holds name, 0 if none does
holder_outermost(scopes, name) ==
    LET hits == {i \in 1..Len(scopes) : name \in DOMAIN scopes[i]}
    IN IF hits = {} THEN 0 ELSE CHOOSE i \in hits : \A j \in hits : i <= j

\* the innermost scope that holds name, 0 if none does
holder(scopes, name) ==
    LET hits == {i \in 1..Len(scopes) : name \in DOMAIN scopes[i]}
    IN IF hits = {} THEN 0 ELSE CHOOSE i \in hits : \A j \in hits : j <= i

\* [ok, val]: Ok(&value) or Err("Undefined variable")
Environment_get(scopes, name) ==
    LET i == holder(scopes, name)
    IN IF i = 0 THEN [ok |-> FALSE, val |-> Value_Nil]
       ELSE [ok |-> TRUE, val |-> scopes[i][name]]

\* an assign that declares a global when no scope holds the name
Environment_assign_declares(scopes, name, value) ==
    LET i == holder(scopes, name)
    IN IF i = 0 THEN [ok |-> TRUE,
                      scopes |-> [scopes EXCEPT ![1] = Insert(@, name, value)]]
       ELSE [ok |-> TRUE,
             scopes |-> [scopes EXCEPT ![i] = Insert(@, name, value)]]

\* [ok, scopes]
Environment_assign(scopes, name, value) ==
    LET i == holder(scopes, name)
    IN IF i = 0 THEN [ok |-> FALSE, scopes |-> scopes]
       ELSE [ok |-> TRUE,
             scopes |-> [scopes EXCEPT ![i] = Insert(@, name, value)]]

define(scopes, name, value) ==
    [scopes EXCEPT ![Len(scopes)] = Insert(@, name, value)]

\* a jump_in_scope that pushes nothing
jump_in_scope_nothing(scopes) == scopes
jump_in_scope(scopes) == Append(scopes, EmptyScope)

\* [ok, scopes]: ok = FALSE is panic!("Try delete global scope")
jump_out_scope(scopes) ==
    IF Len(scopes) # 1
    THEN [ok |-> TRUE, scopes |-> SubSeq(scopes, 1, Len(scopes) - 1)]
    ELSE [ok |-> FALSE, scopes |-> scopes]

(***************************************************************************)
(* Interpreter (interpreter.rs:62-291).  evaluate returns                  *)
(* [st, val, msg, scopes], execute returns [st, msg, scopes, out]: st is   *)
(* "ok", "err" (Err(msg)), "panic", or "diverged" for a loop the model     *)
(* stops following; scopes is the environment and out the printed values   *)
(* when the call returned.                                                 *)
(***************************************************************************)
EvOk(v, scopes) == [st |-> "ok", val |-> v, msg |-> "", scopes |-> scopes]
EvErr(msg, scopes) == [st |-> "err", val |-> Value_Nil, msg |-> msg, scopes |-> scopes]
EvPanic(msg, scopes) ==
    [st |-> "panic", val |-> Value_Nil, msg |-> msg, scopes |-> scopes]

BothNumbers(l, r) == l.t = "Number" /\ r.t = "Number"

\* [ok, val, msg] of the operator helpers (interpreter.rs:195-254)
OpOk(v) == [ok |-> TRUE, val |-> v, msg |-> ""]
OpErr(msg) == [ok |-> FALSE, val |-> Value_Nil, msg |-> msg]

\* an add that takes a string with any value
add_values_lenient(l, r) ==
    CASE BothNumbers(l, r) -> OpOk(Value_Number(f64_add(l.n, r.n)))
      [] l.t = "String" -> OpOk(Value_String(l.s \o r.s))
      [] OTHER -> OpErr("To add operands must be two numbers or two strings")
add_values(l, r) ==
    CASE BothNumbers(l, r) -> OpOk(Value_Number(f64_add(l.n, r.n)))
      [] l.t = "String" /\ r.t = "String" -> OpOk(Value_String(l.s \o r.s))
      [] OTHER -> OpErr("To add operands must be two numbers or two strings")
subtract_values(l, r) ==
    IF BothNumbers(l, r) THEN OpOk(Value_Number(f64_sub(l.n, r.n)))
    ELSE OpErr("To subtract operands must be two numbers")
multiply_values(l, r) ==
    IF BothNumbers(l, r) THEN OpOk(Value_Number(f64_mul(l.n, r.n)))
    ELSE OpErr("To multiply operands must be two numbers")
divide_values(l, r) ==
    IF BothNumbers(l, r) THEN OpOk(Value_Number(f64_div(l.n, r.n)))
    ELSE OpErr("To divide operands must be two numbers")
compare_lt(l, r) ==
    IF BothNumbers(l, r) THEN OpOk(Value_Boolean(f64_lt(l.n, r.n)))
    ELSE OpErr("To compare operands must be two numbers")
compare_gt(l, r) ==
    IF BothNumbers(l, r) THEN OpOk(Value_Boolean(f64_lt(r.n, l.n)))
    ELSE OpErr("To compare operands must be two numbers")
compare_le(l, r) ==
    IF BothNumbers(l, r)
    THEN OpOk(Value_Boolean(f64_lt(l.n, r.n) \/ f64_eq(l.n, r.n)))
    ELSE OpErr("To compare operands must be two numbers")
compare_ge(l, r) ==
    IF BothNumbers(l, r)
    THEN OpOk(Value_Boolean(f64_lt(r.n, l.n) \/ f64_eq(l.n, r.n)))
    ELSE OpErr("To compare operands must be two numbers")
is_equal(l, r) == OpOk(Value_Boolean(value_eq(l, r)))
is_not_equal(l, r) == OpOk(Value_Boolean(~value_eq(l, r)))

\* the match of evaluate_binary on operator.token_type; <<>> is the `_` arm
binary_operation(token_type, l, r) ==
    CASE token_type = "Plus" -> <<add_values(l, r)>>
      [] token_type = "Minus" -> <<subtract_values(l, r)>>
      [] token_type = "Star" -> <<multiply_values(l, r)>>
      [] token_type = "Slash" -> <<divide_values(l, r)>>
      [] token_type = "Less" -> <<compare_lt(l, r)>>
      [] token_type = "LessEqual" -> <<compare_le(l, r)>>
      [] token_type = "Greater" -> <<compare_gt(l, r)>>
      [] token_type = "GreaterEqual" -> <<compare_ge(l, r)>>
      [] token_type = "EqualEqual" -> <<is_equal(l, r)>>
      [] token_type = "BangEqual" -> <<is_not_equal(l, r)>>
      [] OTHER -> <<>>

RECURSIVE evaluate(_, _)

evaluate_assigment(name, expr, scopes) ==
    Try(evaluate(expr, scopes),
        LAMBDA value :
            LET a == Environment_assign(value.scopes, name.lexeme, value.val)
            IN IF a.ok THEN EvOk(value.val, a.scopes)
               ELSE EvErr("Undefined variable", value.scopes))

evaluate_unary(operator, right_expr, scopes) ==
    Try(evaluate(right_expr, scopes),
        LAMBDA right :
            CASE operator.token_type = "Minus" ->
                    IF right.val.t = "Number"
                    THEN EvOk(Value_Number(f64_neg(right.val.n)), right.scopes)
                    ELSE EvErr("Operand must be number", right.scopes)
              [] operator.token_type = "Bang" ->
                    EvOk(Value_Boolean(~is_truthy(right.val)), right.scopes)
              [] OTHER ->
                    EvErr("IllegalOperation wrong operator for unary expression",
                          right.scopes))

\* what evaluate_binary returns for the outcome r of the operation
binary_result(r, scopes) ==
    CASE r = <<>> -> EvPanic("not yet implemented", scopes)
      [] r[1].ok -> EvOk(r[1].val, scopes)
      [] OTHER -> EvErr(r[1].msg, scopes)

evaluate_binary(left_expr, operator, right_expr, scopes) ==
    Try(evaluate(left_expr, scopes),
        LAMBDA left :
            Try(evaluate(right_expr, left.scopes),
                LAMBDA right :
                    binary_result(binary_operation(operator.token_type, left.val,
                                                   right.val),
                                  right.scopes)))

\* evaluate_logical with the right operand evaluated before the operator is
\* looked at
evaluate_logical_eager(left_expr, operator, right_expr, scopes) ==
    Try(evaluate(left_expr, scopes),
        LAMBDA left :
            Try(evaluate(right_expr, left.scopes),
                LAMBDA right :
                    CASE operator.token_type = "And" /\ ~is_truthy(left.val) ->
                            EvOk(left.val, right.scopes)
                      [] operator.token_type = "Or" /\ is_truthy(left.val) ->
                            EvOk(left.val, right.scopes)
                      [] operator.token_type \in {"And", "Or"} -> right
                      [] OTHER ->
                            EvErr("For logical operation operator must be 'and' or 'or'",
                                  right.scopes)))

evaluate_logical(left_expr, operator, right_expr, scopes) ==
    Try(evaluate(left_expr, scopes),
        LAMBDA left :
            CASE operator.token_type = "And" /\ ~is_truthy(left.val) -> left
              [] operator.token_type = "Or" /\ is_truthy(left.val) -> left
              [] operator.token_type \in {"And", "Or"} ->
                    evaluate(right_expr, left.scopes)
              [] OTHER ->
                    EvErr("For logical operation operator must be 'and' or 'or'",
                          left.scopes))

evaluate_variable(name, scopes) ==
    LET g == Environment_get(scopes, name.lexeme)
    IN IF g.ok THEN EvOk(g.val, scopes) ELSE EvErr("Undefined variable", scopes)

evaluate(expr, scopes) ==
    CASE expr.kind = "Binary" ->
            evaluate_binary(expr.left, expr.operator, expr.right, scopes)
      [] expr.kind = "Unary" -> evaluate_unary(expr.operator, expr.right, scopes)
      [] expr.kind = "Grouping" -> evaluate(expr.expr, scopes)
      [] expr.kind = "Literal" -> EvOk(expr.value, scopes)
      [] expr.kind = "Variable" -> evaluate_variable(expr.name, scopes)
      [] expr.kind = "Assign" -> evaluate_assigment(expr.name, expr.value, scopes)
      [] expr.kind = "Logical" ->
            evaluate_logical(expr.left, expr.operator, expr.right, scopes)

ExOk(scopes, out) == [st |-> "ok", msg |-> "", scopes |-> scopes, out |-> out]
\* an evaluation that did not return Ok, as the result of the statement
ExFail(ev, out) == [st |-> ev.st, msg |-> ev.msg, scopes |-> ev.scopes, out |-> out]

\* `self.evaluate(..)?` in a statement: the statement returns what the
\* evaluation returned unless that is Ok
TryEvaluate(v, out, rest(_)) == IF v.st # "ok" THEN ExFail(v, out) ELSE rest(v)

RECURSIVE execute(_, _, _)
RECURSIVE execute_all(_, _, _)
RECURSIVE execute_all_continue(_, _, _)
RECURSIVE while_loop(_, _, _, _, _)

execute_expression(expr, scopes, out) ==
    TryEvaluate(evaluate(expr, scopes), out, LAMBDA v : ExOk(v.scopes, out))

\* println!("{value}"): out records the values printed
execute_print(expr, scopes, out) ==
    TryEvaluate(evaluate(expr, scopes), out,
                LAMBDA v : ExOk(v.scopes, Append(out, v.val)))

execute_variable_declaration(name, initializer, scopes, out) ==
    TryEvaluate(IF initializer # <<>> THEN evaluate(initializer[1], scopes)
                ELSE EvOk(Value_Nil, scopes),
                out,
                LAMBDA v : ExOk(define(v.scopes, name.lexeme, v.val), out))

\* the loop of execute_all going on after a statement that did not return Ok
execute_all_continue(stmts, scopes, out) ==
    IF stmts = <<>> THEN ExOk(scopes, out)
    ELSE Returned(execute(stmts[1], scopes, out),
                  LAMBDA r :
                      Returned(execute_all_continue(Tail(stmts), r.scopes, r.out),
                               LAMBDA rest :
                                   IF r.st = "ok" THEN rest
                                   ELSE [st |-> r.st, msg |-> r.msg,
                                         scopes |-> rest.scopes, out |-> rest.out]))

\* `for stmt in statments { self.execute(stmt)? }`: the first statement that
\* does not return Ok ends the loop and is the result
execute_all(stmts, scopes, out) ==
    IF stmts = <<>> THEN ExOk(scopes, out)
    ELSE Try(execute(stmts[1], scopes, out),
             LAMBDA r : execute_all(Tail(stmts), r.scopes, r.out))

\* execute_block without its jump_out_scope
execute_block_keeps_scope(stmts, scopes, out) ==
    execute_all(stmts, jump_in_scope(scopes), out)

\* execute_block: the `?` in the loop returns before jump_out_scope
execute_block(stmts, scopes, out) ==
    Try(execute_all(stmts, jump_in_scope(scopes), out),
        LAMBDA r :
            LET j == jump_out_scope(r.scopes)
            IN IF j.ok THEN ExOk(j.scopes, r.out)
               ELSE [st |-> "panic", msg |-> "Try delete global scope",
                     scopes |-> r.scopes, out |-> r.out])

execute_if(condition, then_branch, else_branch, scopes, out) ==
    TryEvaluate(evaluate(condition, scopes), out,
                LAMBDA c :
                    CASE is_truthy(c.val) -> execute(then_branch, c.scopes, out)
                      [] else_branch # <<>> -> execute(else_branch[1], c.scopes, out)
                      [] OTHER -> ExOk(c.scopes, out))

\* `while self.evaluate(condition)?.is_truthy() { self.execute(body)?; }`
\* k counts the iterations done
while_loop(condition, body, scopes, out, k) ==
    TryEvaluate(evaluate(condition, scopes), out,
                LAMBDA c :
                    CASE ~is_truthy(c.val) -> ExOk(c.scopes, out)
                      [] k >= MaxIterations ->
                            [st |-> "diverged", msg |-> "", scopes |-> c.scopes,
                             out |-> out]
                      [] OTHER ->
                            Try(execute(body, c.scopes, out),
                                LAMBDA b :
                                    while_loop(condition, body, b.scopes, b.out,
                                               k + 1)))

\* a loop that runs its body before it looks at the condition
execute_while_body_first(condition, body, scopes, out) ==
    Try(execute(body, scopes, out),
        LAMBDA b : while_loop(condition, body, b.scopes, b.out, 1))

execute_while(condition, body, scopes, out) ==
    while_loop(condition, body, scopes, out, 0)

execute(stmt, scopes, out) ==
    CASE stmt.kind = "Expression" -> execute_expression(stmt.expr, scopes, out)
      [] stmt.kind = "Print" -> execute_print(stmt.expr, scopes, out)
      [] stmt.kind = "Var" ->
            execute_variable_declaration(stmt.name, stmt.initializer, scopes, out)
      [] stmt.kind = "Block" -> execute_block(stmt.statments, scopes, out)
      [] stmt.kind = "If" ->
            execute_if(stmt.condition, stmt.then_branch, stmt.else_branch, scopes, out)
      [] stmt.kind = "While" -> execute_while(stmt.condition, stmt.body, scopes, out)

\* interpret on an environment of its own
interpret_fresh(stmts, scopes, out) == execute_all(stmts, Environment_new, out)

\* Interpreter::interpret
interpret(stmts, scopes, out) == execute_all(stmts, scopes, out)

NoResult == [returned |-> FALSE, ok |-> FALSE, statments |-> <<>>, errors |-> <<>>]

\* the parser has not been constructed
ParserIdle ==
    /\ program = <<>>
    /\ parser_tokens = <<>>
    /\ parser_current = 0
    /\ statments = <<>>
    /\ errors = <<>>
    /\ parse_status = "idle"
    /\ parse_result = NoResult

NoCall == [program |-> 0, depth |-> 0, st |-> "", msg |-> "", scopes |-> <<>>,
           out |-> <<>>]

\* evaluate has not been called
NoEvaluation == [returned |-> FALSE]

\* no interpreter has been constructed
InterpreterIdle ==
    /\ environment = <<>>
    /\ output = <<>>
    /\ interp_status = "idle"
    /\ calls = 0
    /\ last_call = NoCall
    /\ evaluate_input = <<>>
    /\ evaluate_output = NoEvaluation

(***************************************************************************)
(* Parser::parse (parser.rs:219-233), one iteration of its loop at a time  *)
(***************************************************************************)
\* The call stack holds StackFrames frames.  The deepest parse of a program of
\* the model that consumes a token now and then needs 28: 14 frames from parse
\* to primary, 11 more inside a `(`, 3 more inside a `{`; only a recursion that
\* consumes nothing exhausts the stack.
StackFrames == 32

\* `match self.declaration() { Ok(s) => statments.push(s), Err(e) => errors.extend(e) }`
parse_match(P, r) ==
    CASE r.st = "overflow" -> [P EXCEPT !.status = "overflow", !.current = r.cur]
      [] r.st = "ok" -> [P EXCEPT !.statments = Append(@, r.val), !.current = r.cur]
      [] OTHER -> [P EXCEPT !.errors = @ \o r.errs, !.current = r.cur]

\* one iteration of `while !self.is_at_end() { match self.declaration() ... }`
parse_step(P) == parse_match(P, declaration(P.tokens, P.current, StackFrames - 1))

\* `return if errors.len() == 0 { Ok(statments) } else { Err(errors) }`
parse_return(P) ==
    IF Len(P.errors) = 0
    THEN [returned |-> TRUE, ok |-> TRUE, statments |-> P.statments, errors |-> <<>>]
    ELSE [returned |-> TRUE, ok |-> FALSE, statments |-> <<>>, errors |-> P.errors]

Parser_new(T) ==
    [tokens |-> T, current |-> 0, statments |-> <<>>, errors |-> <<>>,
     status |-> "parsing"]

\* parse as a function of the tokens: what it returns, NoResult if it never does
RECURSIVE parse_loop(_)
parse_loop(P) ==
    IF P.status = "overflow" THEN NoResult
    ELSE IF parser_is_at_end(P.tokens, P.current) THEN parse_return(P)
    ELSE parse_loop(parse_step(P))

parse(T) == parse_loop(Parser_new(T))

(***************************************************************************)
(* The scanner as a state machine                                          *)
(***************************************************************************)
Self ==
    [source |-> source, tokens |-> tokens, start |-> start, current |-> current,
     line |-> line, status |-> scan_status, unexpected |-> unexpected,
     spans |-> spans]

SetScanner(S) ==
    /\ source' = S.source
    /\ tokens' = S.tokens
    /\ start' = S.start
    /\ current' = S.current
    /\ line' = S.line
    /\ scan_status' = S.status
    /\ unexpected' = S.unexpected
    /\ spans' = S.spans

InitScanner ==
    /\ source \in Sources
    /\ tokens = <<>>
    /\ start = 0
    /\ current = 0
    /\ line = 1
    /\ scan_status = "running"
    /\ unexpected = <<>>
    /\ spans = <<>>
    /\ scan_output = <<>>
    /\ ParserIdle
    /\ InterpreterIdle

ScanToken ==
    /\ scan_status = "running"
    /\ ~is_at_end(Self)
    /\ SetScanner(scan_tokens_step(Self))
    /\ UNCHANGED <<scan_output, parser_vars, interpreter_vars>>

ScanFinish ==
    /\ scan_status = "running"
    /\ is_at_end(Self)
    /\ SetScanner(scan_tokens_exit(Self))
    /\ scan_output' = <<tokens'>>
    /\ UNCHANGED <<parser_vars, interpreter_vars>>

NextScanner == ScanToken \/ ScanFinish

SpecScanner == InitScanner /\ [][NextScanner]_vars

(***************************************************************************)
(* Parser inputs: token sequences as the scanner emits them, written as    *)
(* words.  "NL" is a line break: it yields no token and moves the line.    *)
(***************************************************************************)
Punctuation ==
    [w \in {".", ",", ";", "+", "-", "*", "(", ")", "{", "}", "/", "!", "!=", "=",
            "==", "<", "<=", ">", ">="} |->
        CASE w = "/" -> "Slash"          [] w = "!" -> "Bang"
          [] w = "!=" -> "BangEqual"     [] w = "=" -> "Equal"
          [] w = "==" -> "EqualEqual"    [] w = "<" -> "Less"
          [] w = "<=" -> "LessEqual"     [] w = ">" -> "Greater"
          [] w = ">=" -> "GreaterEqual"  [] OTHER -> SingleCharToken[w]]

KeywordLexeme ==
    [k \in DOMAIN KeywordType |->
        reserved_words[CHOOSE i \in 1..Len(reserved_words) : reserved_words[i][1] = k][2]]

\* the token of a word on line ln
WordToken(w, ln) ==
    CASE w \in DOMAIN Punctuation ->
            [token_type |-> Punctuation[w], line |-> ln, lexeme |-> <<w>>,
             number |-> <<>>]
      [] w \in DOMAIN KeywordType ->
            [token_type |-> KeywordType[w], line |-> ln, lexeme |-> KeywordLexeme[w],
             number |-> <<>>]
      [] w \in Digits ->
            [token_type |-> "Number", line |-> ln, lexeme |-> <<w>>,
             number |-> parse_f64(<<w>>)]
      [] w = "str" ->
            [token_type |-> "String", line |-> ln, lexeme |-> <<"s">>, number |-> <<>>]
      [] OTHER ->
            [token_type |-> "Identifier", line |-> ln, lexeme |-> <<w>>, number |-> <<>>]

RECURSIVE WordTokens(_, _)
WordTokens(ws, ln) ==
    IF ws = <<>>
    THEN <<[token_type |-> "EOF", line |-> ln, lexeme |-> <<>>, number |-> <<>>]>>
    ELSE IF ws[1] = "NL" THEN WordTokens(Tail(ws), ln + 1)
    ELSE <<WordToken(ws[1], ln)>> \o WordTokens(Tail(ws), ln)

\* Statements, each on a line of its own; bad = malformed (in one way)
Fragments ==
    << [bad |-> FALSE, words |-> <<"print", "1", ";", "NL">>],
       [bad |-> FALSE, words |-> <<"a", "=", "2", ";", "NL">>],
       [bad |-> FALSE, words |-> <<"var", "a", "=", "1", ";", "NL">>],
       [bad |-> FALSE, words |-> <<"1", "+", "2", ";", "NL">>],
       [bad |-> TRUE,  words |-> <<"print", "1", "NL">>],            \* no `;`
       [bad |-> TRUE,  words |-> <<"var", "a", "=", "1", "NL">>],    \* no `;`
       [bad |-> TRUE,  words |-> <<"1", "+", "2", "NL">>],           \* no `;`
       [bad |-> TRUE,  words |-> <<"var", "=", "1", ";", "NL">>],    \* no name
       [bad |-> TRUE,  words |-> <<"1", "=", "NL", "2", ";", "NL">>],\* bad target
       [bad |-> TRUE,  words |-> <<"(", "1", ";", "NL">>],           \* no `)`
       [bad |-> TRUE,  words |-> <<"print", ";", "NL">>],            \* no value
       [bad |-> TRUE,  words |-> <<"1", "+", ";", "NL">>] >>         \* no operand

\* `1 = 2;` with the value on the line after the `=`
InvalidTargetWords == <<"1", "=", "NL", "2", ";", "NL">>

\* Single tokens
SoupWords == <<"1", "a", ";", "=", "+", "-", "if", ")", "{", "}", "print", "var">>

\* The clauses and bodies of the `for` statements; the first initializer,
\* condition and increment are the absent ones, the last body lacks its `;`
ForInits == << <<";">>, <<"var", "i", "=", "0", ";">>, <<"i", "=", "0", ";">> >>
ForConds == << <<>>, <<"i", "<", "2">> >>
ForIncrs == << <<>>, <<"i", "=", "i", "+", "1">> >>
ForBodies == << <<"print", "i", ";">>, <<"{", "print", "i", ";", "}">>, <<"print", "i">> >>

\* The operators of the chains `a op1 b op2 c;`
ChainOperators ==
    <<"or", "and", "==", "!=", "<", "<=", ">", ">=", "+", "-", "*", "/">>

\* The operators of `u1 a op u2 b;`
UnaryOperators == <<"!", "-">>

\* A program is a token soup, a list of statements, a block of statements,
\* a `for` statement given by the choice of its clauses and body, a chain
\* given by its two operators, or a binary operation on two unary ones
Programs ==
    [kind : {"soup"}, parts : SeqsUpTo(1..Len(SoupWords), MaxSoupLen)]
    \cup [kind : {"stmts", "block"}, parts : SeqsUpTo(1..Len(Fragments), MaxStmts)]
    \cup [kind : {"for"},
          parts : {<<a, b, c, d>> : a \in 1..Len(ForInits), b \in 1..Len(ForConds),
                                    c \in 1..Len(ForIncrs), d \in 1..Len(ForBodies)}]
    \cup [kind : {"chain"},
          parts : {<<a, b>> : a, b \in 1..Len(ChainOperators)}]

    \cup [kind : {"unary"},
          parts : {<<u, op, v>> : u, v \in 1..Len(UnaryOperators),
                                  op \in 1..Len(ChainOperators)}]

UnaryWords(parts) ==
    <<UnaryOperators[parts[1]], "a", ChainOperators[parts[2]],
      UnaryOperators[parts[3]], "b", ";">>

ChainWords(parts) ==
    <<"a", ChainOperators[parts[1]], "b", ChainOperators[parts[2]], "c", ";">>

ForWords(parts) ==
    <<"for", "(">> \o ForInits[parts[1]] \o ForConds[parts[2]] \o <<";">>
    \o ForIncrs[parts[3]] \o <<")">> \o ForBodies[parts[4]]

RECURSIVE FragmentWords(_)
FragmentWords(parts) ==
    IF parts = <<>> THEN <<>>
    ELSE Fragments[parts[1]].words \o FragmentWords(Tail(parts))

ProgramWords(prog) ==
    CASE prog.kind = "soup" -> [i \in 1..Len(prog.parts) |-> SoupWords[prog.parts[i]]]
      [] prog.kind = "stmts" -> FragmentWords(prog.parts)
      [] prog.kind = "block" -> <<"{", "NL">> \o FragmentWords(prog.parts) \o <<"}">>
      [] prog.kind = "for" -> ForWords(prog.parts)
      [] prog.kind = "chain" -> ChainWords(prog.parts)
      [] prog.kind = "unary" -> UnaryWords(prog.parts)

ProgramTokens(prog) == WordTokens(ProgramWords(prog), 1)

(***************************************************************************)
(* The parser as a state machine                                           *)
(***************************************************************************)
SelfParser ==
    [tokens |-> parser_tokens, current |-> parser_current, statments |-> statments,
     errors |-> errors, status |-> parse_status]

SetParser(P) ==
    /\ parser_tokens' = P.tokens
    /\ parser_current' = P.current
    /\ statments' = P.statments
    /\ errors' = P.errors
    /\ parse_status' = P.status

\* the scanner is not part of this run
ScannerIdle ==
    /\ source = <<>>
    /\ tokens = <<>>
    /\ start = 0
    /\ current = 0
    /\ line = 1
    /\ scan_status = "idle"
    /\ unexpected = <<>>
    /\ spans = <<>>
    /\ scan_output = <<>>

InitParser ==
    /\ ScannerIdle
    /\ program \in Programs
    /\ parser_tokens = ProgramTokens(program)
    /\ parser_current = 0
    /\ statments = <<>>
    /\ errors = <<>>
    /\ parse_status = "parsing"
    /\ parse_result = NoResult
    /\ InterpreterIdle

ParseDeclaration ==
    /\ parse_status = "parsing"
    /\ ~parser_is_at_end(parser_tokens, parser_current)
    /\ SetParser(parse_step(SelfParser))
    /\ UNCHANGED <<program, parse_result, scanner_vars, interpreter_vars>>

ParseFinish ==
    /\ parse_status = "parsing"
    /\ parser_is_at_end(parser_tokens, parser_current)
    /\ parse_result' = parse_return(SelfParser)
    /\ parse_status' = "done"
    /\ UNCHANGED <<program, parser_tokens, parser_current, statments, errors,
                   scanner_vars, interpreter_vars>>

NextParser == ParseDeclaration \/ ParseFinish

SpecParser == InitParser /\ [][NextParser]_vars

(***************************************************************************)
(* The interpreter as a state machine: one Interpreter, a call of          *)
(* interpret per step, each on the statements parse returns for a program. *)
(***************************************************************************)
\* `var a = 1; { var a = 2; } print a;`
ShadowingSource ==
    <<"var", "a", "=", "1", ";", "{", "var", "a", "=", "2", ";", "}", "print", "a", ";">>

\* `{ var b = 2; } print b;`
BlockLocalSource == <<"{", "var", "b", "=", "2", ";", "}", "print", "b", ";">>

\* `{ var a = 2; print a; }`
BlockPrintSource == <<"{", "var", "a", "=", "2", ";", "print", "a", ";", "}">>

\* the n of the counting loops
ForCounts == {0, 2, 3}

DigitWord(n) == <<"0", "1", "2", "3", "4", "5", "6", "7", "8", "9">>[n + 1]

\* `for (var i = 0; i < n; i = i + 1) print i;`
ForSource(n) ==
    <<"for", "(", "var", "i", "=", "0", ";", "i", "<", DigitWord(n), ";",
      "i", "=", "i", "+", "1", ")", "print", "i", ";">>

\* `print g;`
PrintGlobalSource == <<"print", "g", ";">>

\* `var p = 1; print p; print 1 + nil; var q = 2; print q;`
FailingSource ==
    <<"var", "p", "=", "1", ";", "print", "p", ";", "print", "1", "+", "nil", ";",
      "var", "q", "=", "2", ";", "print", "q", ";">>

\* `var w = 0; while (w < 2) w = w + nil; print w;`
FailingLoopSource ==
    <<"var", "w", "=", "0", ";", "while", "(", "w", "<", "2", ")",
      "w", "=", "w", "+", "nil", ";", "print", "w", ";">>

InterpreterSources ==
    << <<"var", "g", "=", "1", ";">>,
       <<"{", "var", "a", "=", "1", ";", "print", "b", ";", "}">>,
       <<"print", "a", ";">>,
       <<"{", "{", "var", "c", "=", "2", ";", "print", "1", "+", "nil", ";", "}", "}">>,
       BlockPrintSource,
       PrintGlobalSource,
       <<"g", "=", "g", "+", "1", ";">>,
       <<"{", "var", "i", "=", "0", ";", "while", "(", "i", "<", "2", ")",
         "i", "=", "i", "+", "1", ";", "if", "(", "i", "==", "2", ")", "print", "b", ";",
         "}">>,
       ShadowingSource,
       BlockLocalSource,
       ForSource(0),
       ForSource(2),
       ForSource(3),
       FailingSource,
       FailingLoopSource >>

InterpreterPrograms ==
    [i \in 1..Len(InterpreterSources) |-> parse(WordTokens(InterpreterSources[i], 1))]

\* the names the programs use
Names == {<<"a">>, <<"b">>, <<"c">>, <<"g">>, <<"i">>, <<"p">>, <<"q">>, <<"w">>}

InitInterpreter ==
    /\ ScannerIdle
    /\ ParserIdle
    /\ environment = Environment_new
    /\ output = <<>>
    /\ interp_status = "ready"
    /\ calls = 0
    /\ last_call = NoCall
    /\ evaluate_input = <<>>
    /\ evaluate_output = NoEvaluation

\* the state after interpret returned r (or did not return)
interpret_return(i, r) ==
    /\ environment' = r.scopes
    /\ output' = r.out
    /\ interp_status' = IF r.st \in {"ok", "err"} THEN "ready" ELSE r.st
    /\ last_call' = [program |-> i, depth |-> Len(environment), st |-> r.st,
                     msg |-> r.msg, scopes |-> environment, out |-> output]

Interpret(i) ==
    /\ interp_status = "ready"
    /\ calls < MaxCalls
    /\ InterpreterPrograms[i].ok
    /\ interpret_return(i, interpret(InterpreterPrograms[i].statments, environment,
                                     output))
    /\ calls' = calls + 1
    /\ UNCHANGED <<scanner_vars, parser_vars, evaluate_input, evaluate_output>>

NextInterpreter == \E i \in 1..Len(InterpreterSources) : Interpret(i)

SpecInterpreter == InitInterpreter /\ [][NextInterpreter]_vars

(***************************************************************************)
(* Interpreter::evaluate (interpreter.rs:125-143) as a state machine: one  *)
(* expression is evaluated in one environment.                             *)
(***************************************************************************)
Number(m) == Value_Number([m |-> m, d |-> 0])

\* the values of the literals
EvaluateValues ==
    {Value_Nil, Value_Boolean(TRUE), Value_Boolean(FALSE),
     Value_Number([m |-> 15, d |-> 1]), Value_String(<<>>), Value_String(<<"s">>)}
    \cup {Number(m) : m \in 0..MaxNumber}

BinaryOperators == {"+", "-", "*", "/", "<", "<=", ">", ">=", "==", "!="}
LogicalOperators == {"and", "or"}

\* g is bound in the global scope, a in an inner scope only, u nowhere
EvaluateNames == {"g", "a", "u"}
GlobalScope == Insert(EmptyScope, <<"g">>, Number(1))
InnerScope == Insert(EmptyScope, <<"a">>, Value_String(<<"s">>))
EvaluateEnvironments ==
    {<<GlobalScope>>, <<GlobalScope, InnerScope>>,
     <<GlobalScope, Insert(InnerScope, <<"g">>, Value_Nil)>>}

\* `1 + nil` (a runtime error), `u` (undefined), `g = 2` (an assignment)
FailingExpr == Expr_Binary(Expr_Literal(Number(1)), WordToken("+", 1), Expr_Literal(Value_Nil))
UndefinedExpr == Expr_Variable(WordToken("u", 1))
AssigningExpr == Expr_Assign(WordToken("g", 1), Expr_Literal(Number(2)))

Literals == {Expr_Literal(v) : v \in EvaluateValues}

EvaluateExprs ==
    {Expr_Binary(l, WordToken(op, 1), r) : l \in Literals, op \in BinaryOperators,
                                          r \in Literals}
    \cup {Expr_Logical(l, WordToken(op, 1), r) :
              l \in Literals \cup {FailingExpr, AssigningExpr}, op \in LogicalOperators,
              r \in {Expr_Literal(Number(0)), Expr_Literal(Value_Nil),
                     Expr_Literal(Value_String(<<"s">>)), FailingExpr, UndefinedExpr,
                     AssigningExpr}}
    \cup {Expr_Unary(WordToken(op, 1), l) : op \in {"-", "!"}, l \in Literals}
    \cup {Expr_Variable(WordToken(n, 1)) : n \in EvaluateNames}
    \cup {Expr_Assign(WordToken(n, 1), v) :
              n \in EvaluateNames,
              v \in {Expr_Literal(Number(0)), FailingExpr, UndefinedExpr, AssigningExpr}}
    \cup {Expr_Grouping(e) : e \in {FailingExpr, AssigningExpr}}

InitEvaluate ==
    /\ ScannerIdle
    /\ ParserIdle
    /\ environment \in EvaluateEnvironments
    /\ output = <<>>
    /\ interp_status = "ready"
    /\ calls = 0
    /\ last_call = NoCall
    /\ evaluate_input \in {<<e>> : e \in EvaluateExprs}
    /\ evaluate_output = NoEvaluation

\* the state after evaluate returned r (or panicked); scopes is the environment
\* when it was called
evaluate_return(r) ==
    /\ environment' = r.scopes
    /\ interp_status' = IF r.st \in {"ok", "err"} THEN "ready" ELSE r.st
    /\ evaluate_output' = [returned |-> r.st \in {"ok", "err"}, st |-> r.st,
                           val |-> r.val, msg |-> r.msg, scopes |-> environment]

Evaluate ==
    /\ interp_status = "ready"
    /\ evaluate_input # <<>>
    /\ evaluate_output = NoEvaluation
    /\ evaluate_return(evaluate(evaluate_input[1], environment))
    /\ UNCHANGED <<scanner_vars, parser_vars, output, calls, last_call, evaluate_input>>

NextEvaluate == Evaluate

SpecEvaluate == InitEvaluate /\ [][NextEvaluate]_vars

(***************************************************************************)
(* Interpreter::execute (interpreter.rs:79-92) as a state machine: one     *)
(* statement is executed in one environment.  evaluate_input holds the     *)
(* statement and evaluate_output what the call returned.                   *)
(***************************************************************************)
\* a global scope with g and a
TwoNamesScope == Insert(GlobalScope, <<"a">>, Value_Boolean(TRUE))

ExecuteEnvironments ==
    EvaluateEnvironments
    \cup {<<TwoNamesScope, InnerScope>>,
          <<TwoNamesScope, Insert(InnerScope, <<"g">>, Value_Nil),
            Insert(EmptyScope, <<"a">>, Number(0))>>}

\* `{ var a = v; while (a) { print a; a = nil; } }`
LoopOn(v) ==
    Stmt_Block(<<Stmt_Var(WordToken("a", 1), <<Expr_Literal(v)>>),
                 Stmt_While(Expr_Variable(WordToken("a", 1)),
                            Stmt_Block(<<Stmt_Print(Expr_Variable(WordToken("a", 1))),
                                         Stmt_Expression(
                                             Expr_Assign(WordToken("a", 1),
                                                         Expr_Literal(Value_Nil)))>>))>>)

\* the last value the condition of CountingLoop lets through
MaxCount == 3

\* `while ((g = g + 1) <= MaxCount) print g;`
CountingLoop ==
    Stmt_While(Expr_Binary(Expr_Grouping(
                               Expr_Assign(WordToken("g", 1),
                                           Expr_Binary(Expr_Variable(WordToken("g", 1)),
                                                       WordToken("+", 1),
                                                       Expr_Literal(Number(1))))),
                           WordToken("<=", 1), Expr_Literal(Number(MaxCount))),
               Stmt_Print(Expr_Variable(WordToken("g", 1))))

\* `if (v) print 1; else print 0;` and `if (v) print 1;`
Choice(v, with_else) ==
    Stmt_If(Expr_Literal(v), Stmt_Print(Expr_Literal(Number(1))),
            IF with_else THEN <<Stmt_Print(Expr_Literal(Number(0)))>> ELSE <<>>)

\* `var n;`, `var n = e;`, `n = e;` and `print n;`, and the loops and choices
ExecuteStmts ==
    {LoopOn(v) : v \in EvaluateValues}
    \cup {CountingLoop}
    \cup {Choice(v, with_else) : v \in EvaluateValues, with_else \in BOOLEAN}
    \cup {Stmt_Var(WordToken(n, 1), i) :
         n \in EvaluateNames,
         i \in {<<>>, <<Expr_Literal(Value_String(<<"s">>))>>,
                <<Expr_Variable(WordToken("g", 1))>>, <<FailingExpr>>}
               \cup {<<Expr_Literal(Number(m))>> : m \in 0..MaxNumber}}
    \cup {Stmt_Expression(Expr_Assign(WordToken(n, 1), v)) :
         n \in EvaluateNames,
         v \in {Expr_Literal(Value_String(<<"s">>)), Expr_Variable(WordToken("g", 1))}
               \cup {Expr_Literal(Number(m)) : m \in 0..MaxNumber}}
    \cup {Stmt_Print(Expr_Variable(WordToken(n, 1))) : n \in EvaluateNames}

InitExecute ==
    /\ ScannerIdle
    /\ ParserIdle
    /\ environment \in ExecuteEnvironments
    /\ output = <<>>
    /\ interp_status = "ready"
    /\ calls = 0
    /\ last_call = NoCall
    /\ evaluate_input \in {<<stmt>> : stmt \in ExecuteStmts}
    /\ evaluate_output = NoEvaluation

\* the state after execute returned r; scopes is the environment when it was
\* called
execute_return(r) ==
    /\ environment' = r.scopes
    /\ output' = r.out
    /\ interp_status' = IF r.st \in {"ok", "err"} THEN "ready" ELSE r.st
    /\ evaluate_output' = [returned |-> r.st \in {"ok", "err"}, st |-> r.st,
                           val |-> Value_Nil, msg |-> r.msg, scopes |-> environment]

Execute ==
    /\ interp_status = "ready"
    /\ evaluate_input # <<>>
    /\ evaluate_output = NoEvaluation
    /\ execute_return(execute(evaluate_input[1], environment, output))
    /\ UNCHANGED <<scanner_vars, parser_vars, calls, last_call, evaluate_input>>

NextExecute == Execute

SpecExecute == InitExecute /\ [][NextExecute]_vars

-----------------------------------------------------------------------------
(***************************************************************************)
(* Scanner properties                                                      *)
(***************************************************************************)
Newlines(n) == Cardinality({i \in 1..n : source[i] = "\n"})
NoneIn(c, from, to) == \A i \in from..to : source[i] # c

\* The last dispatched lexeme starts at `start` with "//" and no line break follows
AtTrailingComment ==
    /\ current > start
    /\ start + 2 <= Len(source)
    /\ source[start + 1] = "/" /\ source[start + 2] = "/"
    /\ NoneIn("\n", start + 3, Len(source))

\* C6: a `//` comment with no newline after it is consumed up to end-of-input
\* and emits no token: the scan goes on to the end-of-input token, it does not
\* abort inside the comment.
C6_CommentConsumedToEndOfInput ==
    AtTrailingComment =>
        /\ scan_status \in {"running", "done"}
        /\ current = Len(source)
        /\ \A k \in 1..Len(spans) :
               tokens[k].token_type # "EOF" => spans[k][2] <= start

\* C7: a number lexeme holds at most one '.', and converting it to a float
\* never fails.
C7_NumberHasOneDot ==
    /\ scan_status # "panic_unwrap"
    /\ \A k \in 1..Len(tokens) :
           tokens[k].token_type = "Number" =>
               /\ Cardinality({i \in 1..Len(tokens[k].lexeme) :
                                  tokens[k].lexeme[i] = "."}) <= 1
               /\ tokens[k].number = parse_f64(tokens[k].lexeme)
               /\ tokens[k].number # <<>>

\* C8: a character that starts no token is reported and skipped: the scan ends
\* as it ends, with the same tokens, for the source that holds a space in its
\* place.
C8_UnexpectedCharacterIsSkipped ==
    scan_status # "running" =>
        \A k \in 1..Len(unexpected) :
            LET R == scan_tokens(Scanner_new(
                         [source EXCEPT ![unexpected[k] + 1] = " "]))
            IN /\ R.tokens = tokens
               /\ R.status = scan_status

C8_Witness ==
    /\ scan_status = "done"
    /\ \E k \in 1..Len(unexpected) : \E j \in 1..Len(tokens) :
           /\ tokens[j].token_type # "EOF"
           /\ spans[j][1] > unexpected[k]

\* The last dispatched lexeme opens a string at `start` that nothing closes
UnclosedStringAtStart ==
    /\ current > start
    /\ source[start + 1] = "\""
    /\ NoneIn("\"", start + 2, Len(source))

ClosedStringAtStart ==
    /\ current > start
    /\ source[start + 1] = "\""
    /\ ~NoneIn("\"", start + 2, Len(source))

\* C9: a string with no closing quote aborts the scan and nothing is handed
\* over, not even the tokens scanned before it; a closed string yields one
\* String token whose text is what stands between the two quotes.
C9_StringLiteral ==
    /\ UnclosedStringAtStart <=> scan_status = "panic_unterminated"
    /\ scan_status = "panic_unterminated" => scan_output = <<>>
    /\ ClosedStringAtStart =>
           LET n == IF scan_status = "done" THEN Len(tokens) - 1 ELSE Len(tokens)
               q == CHOOSE i \in (start + 2)..Len(source) :
                        source[i] = "\"" /\ NoneIn("\"", start + 2, i - 1)
           IN /\ scan_status \in {"running", "done"}
              /\ n >= 1
              /\ tokens[n].token_type = "String"
              /\ tokens[n].lexeme = SubSeq(source, start + 2, q - 1)
              /\ spans[n] = <<start, q>>
              /\ current = q
              /\ \A j \in 1..(n - 1) : spans[j][2] <= start

C9_Witness ==
    /\ scan_status = "panic_unterminated"
    /\ tokens # <<>>
    /\ scan_output = <<>>

\* C10: the tokens emitted so far are in source order, each on line 1 + the
\* newlines consumed when it was pushed, with non-decreasing lines; a scan
\* that completes hands over its tokens with one end-of-input token, the last.
C10_TokenOrderAndLines ==
    /\ Len(spans) = Len(tokens)
    /\ \A k \in 1..Len(tokens) :
           /\ tokens[k].line = 1 + Newlines(spans[k][2])
           /\ k > 1 => tokens[k - 1].line <= tokens[k].line
           /\ tokens[k].token_type # "EOF" =>
                  /\ spans[k][1] < spans[k][2]
                  /\ k > 1 => spans[k - 1][2] <= spans[k][1]
                  /\ tokens[k].token_type # "String" =>
                         tokens[k].lexeme = SubSeq(source, spans[k][1] + 1, spans[k][2])
           /\ tokens[k].token_type = "EOF" => k = Len(tokens) /\ scan_status = "done"
    /\ scan_status = "done" =>
           /\ tokens # <<>>
           /\ tokens[Len(tokens)].token_type = "EOF"
           /\ scan_output = <<tokens>>
    /\ scan_status # "done" => scan_output = <<>>

C10_Witness ==
    /\ scan_status = "done"
    /\ Len(tokens) >= 3
    /\ tokens[1].line < tokens[2].line

-----------------------------------------------------------------------------
(***************************************************************************)
(* Parser properties                                                       *)
(***************************************************************************)
BadParts(prog) == {i \in 1..Len(prog.parts) : Fragments[prog.parts[i]].bad}

\* C2: parse returns for every token sequence that ends with the end-of-input
\* token, Ok when it recorded no error and Err otherwise; no input makes it
\* recurse until the stack is exhausted.
C2_ParseReturns ==
    /\ parse_status # "overflow"
    /\ parse_status = "done" =>
           /\ parse_result.returned
           /\ parse_result.ok <=> parse_result.errors = <<>>

\* The line of the `=` that follows a number
EqualsAfterNumberLine ==
    LET i == CHOOSE j \in 2..Len(parser_tokens) :
                 /\ parser_tokens[j].token_type = "Equal"
                 /\ parser_tokens[j - 1].token_type = "Number"
    IN parser_tokens[i].line

\* C3: a statement that assigns to something that is no variable (`1 = 2;`),
\* alone or among well-formed statements, makes parse return Err with exactly
\* one error: an Expr error naming the invalid target, on the line of the `=`.
C3_InvalidAssignmentTarget ==
    ( /\ program.kind = "stmts"
      /\ Cardinality(BadParts(program)) = 1
      /\ \A i \in BadParts(program) :
             Fragments[program.parts[i]].words = InvalidTargetWords )
    => /\ parse_status # "overflow"
       /\ parse_status = "done" =>
              /\ ~parse_result.ok
              /\ Len(parse_result.errors) = 1
              /\ parse_result.errors[1].error_type = "Expr"
              /\ parse_result.errors[1].message = "Invalid assigment target"
              /\ parse_result.errors[1].line = EqualsAfterNumberLine
              /\ parse_result.errors[1].expression = <<>>

\* C4: for a list of top-level statements, parse returns Ok exactly when none
\* is malformed, and otherwise Err with one error for each malformed statement,
\* in source order: a failed statement does not stop the parse.
C4_ErrorsOfEveryFailedStatement ==
    program.kind = "stmts" =>
        /\ parse_status # "overflow"
        /\ parse_status = "done" =>
               /\ parse_result.ok <=> BadParts(program) = {}
               /\ Len(parse_result.errors) = Cardinality(BadParts(program))
               /\ \A i, j \in 1..Len(parse_result.errors) :
                      i < j => parse_result.errors[i].line < parse_result.errors[j].line

\* C5: a block closed by `}` that holds exactly two malformed statements makes
\* parse return Err with exactly two errors.
C5_BlockWithTwoErrors ==
    (program.kind = "block" /\ Cardinality(BadParts(program)) = 2)
    => /\ parse_status # "overflow"
       /\ parse_status = "done" =>
              /\ ~parse_result.ok
              /\ Len(parse_result.errors) = 2

\* r is an expression parsed to its end that no `;` follows, and e the error
\* of the expression statement made of it
RecoveredFrom(e, r) ==
    /\ r.st = "ok"
    /\ ~match_tokens(parser_tokens, r.cur, {"Semicolon"})
    /\ e.expression = <<r.val>>
    /\ e.line = previous(parser_tokens, r.cur).line

\* C17: a parse error carries an expression only when it is the error of an
\* expression statement whose expression was parsed to its end and is not
\* followed by `;`: it is then a statement error "Expect ';' after
\* expression" carrying that expression.  Every other error carries none.
C17_RecoveredExpression ==
    \A k \in 1..Len(errors) :
        errors[k].expression # <<>> =>
            /\ errors[k].error_type = "Stmt"
            /\ errors[k].message = "Expect ';' after expression"
            /\ \E cur \in 0..(Len(parser_tokens) - 1) :
                   RecoveredFrom(errors[k], expression(parser_tokens, cur, StackFrames))

\* `1 + 2` without `;` between two well-formed statements: parse returned one
\* error, which carries the addition
C17_Witness ==
    /\ parse_status = "done"
    /\ program.kind = "stmts"
    /\ Len(program.parts) = 3
    /\ parse_result.returned
    /\ ~parse_result.ok
    /\ Len(parse_result.errors) = 1
    /\ parse_result.errors[1].expression # <<>>
    /\ parse_result.errors[1].expression[1].kind = "Binary"
    /\ parse_result.errors[1].line = 2

\* the statement, and the expression, that the words alone are parsed to
ParsedStmt(words) == parse(WordTokens(words, 1)).statments[1]
ParsedExpr(words) == ParsedStmt(words \o <<";">>).expr

\* the clauses of the `for` program as the desugaring receives them
InitOf(parts) == IF parts[1] = 1 THEN <<>> ELSE <<ParsedStmt(ForInits[parts[1]])>>
CondOf(parts) ==
    IF parts[2] = 1 THEN Expr_Literal(Value_Boolean(TRUE))
    ELSE ParsedExpr(ForConds[parts[2]])
IncrOf(parts) ==
    IF parts[3] = 1 THEN <<>> ELSE <<Stmt_Expression(ParsedExpr(ForIncrs[parts[3]]))>>
BodyOf(parts) == ParsedStmt(ForBodies[parts[4]])

\* parse returned Ok for the `for` program
ForParsed ==
    /\ program.kind = "for"
    /\ parse_status = "done"
    /\ parse_result.ok

\* C20 as stated: every `for` that parses without error becomes
\* Block[init?, While{cond or true, Block[body, incr?]}], with both blocks
\* whichever clauses are present.
C20_ForAlwaysBlocks ==
    ForParsed =>
        parse_result.statments =
            <<Stmt_Block(InitOf(program.parts)
                         \o <<Stmt_While(CondOf(program.parts),
                                         Stmt_Block(<<BodyOf(program.parts)>>
                                                    \o IncrOf(program.parts)))>>)>>

\* C20 amended: every `for` that parses without error becomes
\* While{cond or true, B}, where B is Block[body, ExpressionStmt(incr)] when the
\* increment is present and the body itself when it is absent; the While is
\* wrapped as Block[init, While] when the initializer is present and is the
\* result itself when it is absent.
C20_ForDesugared ==
    ForParsed =>
        /\ Len(parse_result.statments) = 1
        /\ LET parts == program.parts
               inner == IF IncrOf(parts) # <<>>
                        THEN Stmt_Block(<<BodyOf(parts)>> \o IncrOf(parts))
                        ELSE BodyOf(parts)
               loop == Stmt_While(CondOf(parts), inner)
           IN parse_result.statments[1] =
                  IF InitOf(parts) # <<>> THEN Stmt_Block(InitOf(parts) \o <<loop>>)
                  ELSE loop

\* `for (;;) print i;` was parsed to a While on `true` whose body is the print
C20_Witness ==
    /\ ForParsed
    /\ program.parts = <<1, 1, 1, 1>>
    /\ parse_result.statments[1].kind = "While"
    /\ parse_result.statments[1].condition = Expr_Literal(Value_Boolean(TRUE))
    /\ parse_result.statments[1].body.kind = "Print"

\* how tightly an operator binds: `or` least, `*` and `/` most
Binds(w) ==
    CASE w = "or" -> 1
      [] w = "and" -> 2
      [] w \in {"==", "!="} -> 3
      [] w \in {"<", "<=", ">", ">="} -> 4
      [] w \in {"+", "-"} -> 5
      [] w \in {"*", "/"} -> 6

\* the node (w l r)
Node(w, l, r) ==
    IF w \in {"or", "and"} THEN Expr_Logical(l, WordToken(w, 1), r)
    ELSE Expr_Binary(l, WordToken(w, 1), r)

Operand(w) == Expr_Variable(WordToken(w, 1))

\* C23: `a op1 b op2 c;` parses to (op2 (op1 a b) c) when op1 and op2 are of
\* one level, for each of the six levels, and also when op1 is of a higher
\* level than op2; when op2 is of a higher level than op1 it parses to
\* (op1 a (op2 b c)): the operator that binds tighter is the child.
C23_LeftAssociative ==
    (program.kind = "chain" /\ parse_status = "done") =>
        /\ parse_result.ok
        /\ LET op1 == ChainOperators[program.parts[1]]
               op2 == ChainOperators[program.parts[2]]
           IN parse_result.statments =
                  <<Stmt_Expression(
                        IF Binds(op1) >= Binds(op2)
                        THEN Node(op2, Node(op1, Operand("a"), Operand("b")), Operand("c"))
                        ELSE Node(op1, Operand("a"),
                                  Node(op2, Operand("b"), Operand("c"))))>>

\* `a - b + c;` was parsed to (+ (- a b) c)
C23_Witness ==
    /\ program.kind = "chain"
    /\ ChainWords(program.parts) = <<"a", "-", "b", "+", "c", ";">>
    /\ parse_status = "done"
    /\ parse_result.ok
    /\ parse_result.statments[1].expr.operator.token_type = "Plus"
    /\ parse_result.statments[1].expr.left.kind = "Binary"
    /\ parse_result.statments[1].expr.left.operator.token_type = "Minus"
    /\ parse_result.statments[1].expr.right = Operand("c")

\* the operators evaluate_binary, evaluate_logical and evaluate_unary handle
HandledBinary ==
    {"Plus", "Minus", "Star", "Slash", "Less", "LessEqual", "Greater", "GreaterEqual",
     "EqualEqual", "BangEqual"}
HandledLogical == {"And", "Or"}
HandledUnary == {"Bang", "Minus"}

RECURSIVE HandledExpr(_)
HandledExpr(e) ==
    CASE e.kind = "Binary" ->
            /\ e.operator.token_type \in HandledBinary
            /\ HandledExpr(e.left)
            /\ HandledExpr(e.right)
      [] e.kind = "Logical" ->
            /\ e.operator.token_type \in HandledLogical
            /\ HandledExpr(e.left)
            /\ HandledExpr(e.right)
      [] e.kind = "Unary" ->
            /\ e.operator.token_type \in HandledUnary
            /\ HandledExpr(e.right)
      [] e.kind = "Grouping" -> HandledExpr(e.expr)
      [] e.kind = "Assign" -> HandledExpr(e.value)
      [] e.kind \in {"Literal", "Variable"} -> TRUE

RECURSIVE HandledStmt(_)
HandledStmt(stmt) ==
    CASE stmt.kind \in {"Expression", "Print"} -> HandledExpr(stmt.expr)
      [] stmt.kind = "Var" ->
            stmt.initializer = <<>> \/ HandledExpr(stmt.initializer[1])
      [] stmt.kind = "Block" ->
            \A i \in 1..Len(stmt.statments) : HandledStmt(stmt.statments[i])
      [] stmt.kind = "If" ->
            /\ HandledExpr(stmt.condition)
            /\ HandledStmt(stmt.then_branch)
            /\ stmt.else_branch = <<>> \/ HandledStmt(stmt.else_branch[1])
      [] stmt.kind = "While" -> HandledExpr(stmt.condition) /\ HandledStmt(stmt.body)

\* an environment that binds the names of the programs
ParsedNamesScope ==
    Insert(Insert(Insert(Insert(EmptyScope, <<"a">>, Number(1)),
                         <<"b">>, Number(2)), <<"c">>, Number(3)), <<"i">>, Number(0))

\* the call r of interpret did not end in an arm for an unhandled operator
NoUnhandledOperator(r) ==
    /\ r.st # "panic"
    /\ r.msg \notin {"not yet implemented",
                     "IllegalOperation wrong operator for unary expression",
                     "For logical operation operator must be 'and' or 'or'"}

\* C24: every statement parse puts into its list, and so every AST it
\* returns, has only `+ - * / < <= > >= == !=` in Binary nodes, `and` and `or`
\* in Logical nodes and `!` and `-` in Unary nodes; interpreting what parse
\* returned, with or without the names bound, reaches neither the `todo!()`
\* arm of evaluate_binary nor the error for an illegal unary or logical
\* operator.
C24_OperatorsHandled ==
    /\ \A i \in 1..Len(statments) : HandledStmt(statments[i])
    /\ (parse_status = "done" /\ parse_result.ok) =>
           /\ \A i \in 1..Len(parse_result.statments) :
                  HandledStmt(parse_result.statments[i])
           /\ NoUnhandledOperator(interpret(parse_result.statments, Environment_new,
                                            <<>>))
           /\ NoUnhandledOperator(interpret(parse_result.statments,
                                            <<ParsedNamesScope>>, <<>>))

\* `! a or - b;` was parsed to a Logical `or` of two Unary nodes
C24_Witness ==
    /\ program.kind = "unary"
    /\ UnaryWords(program.parts) = <<"!", "a", "or", "-", "b", ";">>
    /\ parse_status = "done"
    /\ parse_result.ok
    /\ parse_result.statments[1].expr.kind = "Logical"
    /\ parse_result.statments[1].expr.operator.token_type = "Or"
    /\ parse_result.statments[1].expr.left.kind = "Unary"
    /\ parse_result.statments[1].expr.left.operator.token_type = "Bang"
    /\ parse_result.statments[1].expr.right.operator.token_type = "Minus"

-----------------------------------------------------------------------------
(***************************************************************************)
(* Interpreter properties                                                  *)
(***************************************************************************)
\* C1: after a call of interpret, whether it returned Ok or an error raised
\* inside nested blocks, the scope stack is as deep as when the call began,
\* so a name is readable only if the global scope holds it: what a failed
\* block declared is gone.
C1_ScopeDepthRestored ==
    (interp_status = "ready" /\ calls > 0) =>
        /\ Len(environment) = last_call.depth
        /\ \A name \in Names :
               Environment_get(environment, name).ok => name \in DOMAIN environment[1]

\* the last call of interpret ran the program of these words
Ran(words) ==
    /\ last_call.program # 0
    /\ InterpreterSources[last_call.program] = words

\* what reading name gives in the environment: <<>> when it is undefined
Reads(scopes, name) ==
    IF Environment_get(scopes, name).ok THEN <<Environment_get(scopes, name).val>>
    ELSE <<>>

\* C12: what a block declares with `var` is gone when the block has completed,
\* and a block that shadows a name leaves the outer variable as it was:
\* `var a = 1; { var a = 2; } print a;` prints 1, `{ var b = 2; } print b;`
\* fails with "Undefined variable" when b was not defined before, and after
\* `{ var a = 2; print a; }` the name a reads as before the block.
C12_BlockScope ==
    /\ Ran(ShadowingSource) =>
           /\ last_call.st = "ok"
           /\ output = Append(last_call.out, Number(1))
           /\ Reads(environment, <<"a">>) = <<Number(1)>>
    /\ (Ran(BlockLocalSource) /\ Reads(last_call.scopes, <<"b">>) = <<>>) =>
           /\ last_call.st = "err"
           /\ last_call.msg = "Undefined variable"
           /\ output = last_call.out
           /\ Reads(environment, <<"b">>) = <<>>
    /\ Ran(BlockPrintSource) =>
           /\ last_call.st = "ok"
           /\ output = Append(last_call.out, Number(2))
           /\ Reads(environment, <<"a">>) = Reads(last_call.scopes, <<"a">>)
           /\ Len(environment) = Len(last_call.scopes)

\* a was 1, `{ var a = 2; print a; }` printed 2 and a is still 1
C12_Witness ==
    /\ Ran(BlockPrintSource)
    /\ Reads(last_call.scopes, <<"a">>) = <<Number(1)>>
    /\ output = Append(last_call.out, Number(2))
    /\ Reads(environment, <<"a">>) = <<Number(1)>>

\* the numbers 0 .. n-1 in order
CountTo(n) == [k \in 1..n |-> Number(k - 1)]

\* C13: `for (var i = 0; i < n; i = i + 1) print i;` runs its body n times
\* with i = 0, 1, .., n-1 in that order (it prints exactly these), and
\* afterwards i is what it was before the loop in the enclosing scope:
\* undefined if it was undefined.
C13_ForCounts ==
    \A n \in ForCounts :
        Ran(ForSource(n)) =>
            /\ last_call.st = "ok"
            /\ output = last_call.out \o CountTo(n)
            /\ Reads(environment, <<"i">>) = Reads(last_call.scopes, <<"i">>)
            /\ environment = last_call.scopes

\* the loop to 3 printed 0 1 2 and i is undefined after it
C13_Witness ==
    /\ Ran(ForSource(3))
    /\ output = last_call.out \o <<Number(0), Number(1), Number(2)>>
    /\ Reads(last_call.scopes, <<"i">>) = <<>>
    /\ Reads(environment, <<"i">>) = <<>>

\* the names a program declares with `var` or assigns with `=`
Writes(words) ==
    {<<words[k]>> : k \in {j \in 2..Len(words) : words[j - 1] = "var"}}
    \cup {<<words[k]>> : k \in {j \in 1..(Len(words) - 1) : words[j + 1] = "="}}

\* the value of a global variable: <<>> when the global scope does not hold it
GlobalValue(scopes, name) ==
    IF name \in DOMAIN scopes[1] THEN <<scopes[1][name]>> ELSE <<>>

\* C14: a call of interpret works on the environment the earlier calls left:
\* `print g;` prints the value that the global g had when the previous call
\* returned, and a call whose program neither declares nor assigns a name
\* leaves the global of that name as it was.
C14_EnvironmentPersists ==
    calls > 0 =>
        /\ (Ran(PrintGlobalSource) /\ Reads(last_call.scopes, <<"g">>) # <<>>) =>
               /\ last_call.st = "ok"
               /\ output = last_call.out \o Reads(last_call.scopes, <<"g">>)
        /\ \A name \in Names \ Writes(InterpreterSources[last_call.program]) :
               GlobalValue(environment, name) = GlobalValue(last_call.scopes, name)

\* after `var g = 1;` and `g = g + 1;` in two calls, the third prints 2
C14_Witness ==
    /\ calls = 3
    /\ Ran(PrintGlobalSource)
    /\ output = <<Number(2)>>
    /\ GlobalValue(environment, <<"g">>) = <<Number(2)>>

AddError == "To add operands must be two numbers or two strings"

\* C15: the first runtime error ends the call of interpret.  In
\* `var p = 1; print p; print 1 + nil; var q = 2; print q;` the third statement
\* fails: the call returns its error, p is 1 and 1 was printed, q is not
\* declared and nothing more is printed.  In
\* `var w = 0; while (w < 2) w = w + nil; print w;` the error of the loop body
\* is returned, w is still 0 and nothing is printed.
C15_FirstErrorEndsCall ==
    /\ Ran(FailingSource) =>
           /\ last_call.st = "err"
           /\ last_call.msg = AddError
           /\ interp_status = "ready"
           /\ output = Append(last_call.out, Number(1))
           /\ Reads(environment, <<"p">>) = <<Number(1)>>
           /\ Reads(environment, <<"q">>) = <<>>
    /\ Ran(FailingLoopSource) =>
           /\ last_call.st = "err"
           /\ last_call.msg = AddError
           /\ interp_status = "ready"
           /\ output = last_call.out
           /\ Reads(environment, <<"w">>) = <<Number(0)>>

\* the failing program ran on an environment without p: p is declared, 1 was
\* printed, the error came back and q is undeclared
C15_Witness ==
    /\ Ran(FailingSource)
    /\ Reads(last_call.scopes, <<"p">>) = <<>>
    /\ last_call.st = "err"
    /\ output = Append(last_call.out, Number(1))
    /\ Reads(environment, <<"p">>) = <<Number(1)>>
    /\ Reads(environment, <<"q">>) = <<>>

\* C19: the scope stack of an Interpreter always holds at least one scope, and
\* its bottom scope is the global scope it was created with: no call of
\* interpret removes it or a binding of it, or leaves fewer scopes than it
\* found, because every jump_out_scope follows the jump_in_scope of the same
\* block.  jump_out_scope is never called on a single scope: the panic "Try
\* delete global scope" does not happen.
C19_GlobalScopeKept ==
    /\ Len(environment) >= 1
    /\ interp_status # "panic"
    /\ last_call.st # "panic"
    /\ last_call.msg # "Try delete global scope"
    /\ calls > 0 =>
           /\ Len(environment) >= Len(last_call.scopes)
           /\ DOMAIN last_call.scopes[1] \subseteq DOMAIN environment[1]

\* a block ran to its end on the global scope alone, which holds g: it popped
\* the scope it pushed and the global scope is there as before
C19_Witness ==
    /\ Ran(BlockPrintSource)
    /\ last_call.st = "ok"
    /\ Len(last_call.scopes) = 1
    /\ <<"g">> \in DOMAIN last_call.scopes[1]
    /\ environment = last_call.scopes

-----------------------------------------------------------------------------
(***************************************************************************)
(* Properties of Interpreter::evaluate                                     *)
(***************************************************************************)
Falsy(v) == v = Value_Nil \/ v = Value_Boolean(FALSE)

\* evaluate returned Ok(v) and left the environment as it was
ReturnedUnchanged(v) ==
    /\ evaluate_output.st = "ok"
    /\ evaluate_output.val = v
    /\ environment = evaluate_output.scopes

\* evaluate returned what evaluating the operand e alone returns
ReturnedOperand(e) ==
    CASE e.kind = "Literal" -> ReturnedUnchanged(e.value)
      [] e = FailingExpr ->
            /\ evaluate_output.st = "err"
            /\ evaluate_output.msg = "To add operands must be two numbers or two strings"
            /\ environment = evaluate_output.scopes
      [] e = UndefinedExpr ->
            /\ evaluate_output.st = "err"
            /\ evaluate_output.msg = "Undefined variable"
            /\ environment = evaluate_output.scopes
      [] e = AssigningExpr ->
            /\ evaluate_output.st = "ok"
            /\ evaluate_output.val = Number(2)
            /\ Environment_get(environment, <<"g">>).val = Number(2)

ShortCircuits(e) ==
    /\ e.kind = "Logical"
    /\ e.left.kind = "Literal"
    /\ \/ e.operator.token_type = "And" /\ Falsy(e.left.value)
       \/ e.operator.token_type = "Or" /\ ~Falsy(e.left.value)

\* C11: `and` with a falsy left value and `or` with a truthy left value return
\* the left value and do not evaluate the right operand (its error is not
\* raised, its assignment does not happen); otherwise the result is what the
\* right operand evaluates to, not coerced to a boolean.
C11_LogicalShortCircuit ==
    (evaluate_output # NoEvaluation /\ evaluate_input[1].kind = "Logical"
     /\ evaluate_input[1].left.kind = "Literal") =>
        IF ShortCircuits(evaluate_input[1])
        THEN ReturnedUnchanged(evaluate_input[1].left.value)
        ELSE ReturnedOperand(evaluate_input[1].right)

\* `false and (1 + nil)` returned false
C11_Witness ==
    /\ evaluate_output # NoEvaluation
    /\ evaluate_input[1] = Expr_Logical(Expr_Literal(Value_Boolean(FALSE)),
                                        WordToken("and", 1), FailingExpr)
    /\ evaluate_output.st = "ok"
    /\ evaluate_output.val = Value_Boolean(FALSE)

\* evaluate returned Err("Undefined variable ..")
UndefinedVariable ==
    /\ evaluate_output.st = "err"
    /\ evaluate_output.msg = "Undefined variable"

\* the scopes hold the same names as before evaluate was called
SameBindings ==
    /\ Len(environment) = Len(evaluate_output.scopes)
    /\ \A i \in 1..Len(environment) :
           DOMAIN environment[i] = DOMAIN evaluate_output.scopes[i]

\* C16: reading a name that no scope holds returns the error "Undefined
\* variable"; assigning to such a name returns it too once the value was
\* evaluated, and binds the name in no scope: with a literal value the
\* environment is exactly as before.  No evaluation adds a name to a scope.
C16_UndefinedVariable ==
    evaluate_output # NoEvaluation =>
        /\ SameBindings
        /\ (evaluate_input[1].kind = "Variable"
            /\ Reads(evaluate_output.scopes, evaluate_input[1].name.lexeme) = <<>>) =>
               /\ UndefinedVariable
               /\ environment = evaluate_output.scopes
        /\ (evaluate_input[1].kind = "Assign"
            /\ Reads(evaluate_output.scopes, evaluate_input[1].name.lexeme) = <<>>) =>
               /\ evaluate_output.st = "err"
               /\ evaluate_input[1].value \in Literals \cup {UndefinedExpr, AssigningExpr}
                      => UndefinedVariable
               /\ evaluate_input[1].value.kind = "Literal"
                      => environment = evaluate_output.scopes
               /\ Reads(environment, evaluate_input[1].name.lexeme) = <<>>

\* `u = 0` with u bound nowhere returned the error and changed nothing
C16_Witness ==
    /\ evaluate_output # NoEvaluation
    /\ evaluate_input[1].kind = "Assign"
    /\ evaluate_input[1].name.lexeme = <<"u">>
    /\ evaluate_input[1].value = Expr_Literal(Number(0))
    /\ UndefinedVariable
    /\ environment = evaluate_output.scopes

\* the operand types fit the operator
Fits(token_type, l, r) ==
    CASE token_type \in {"Minus", "Star", "Slash", "Less", "LessEqual", "Greater",
                         "GreaterEqual"} ->
            l.t = "Number" /\ r.t = "Number"
      [] token_type = "Plus" ->
            \/ l.t = "Number" /\ r.t = "Number"
            \/ l.t = "String" /\ r.t = "String"
      [] token_type \in {"EqualEqual", "BangEqual"} -> TRUE

\* what `==` and `!=` return on operands of different variants or with a nil
EqualityOfVariants(token_type, l, r) ==
    /\ (token_type = "EqualEqual" /\ l.t # r.t) =>
           evaluate_output.val = Value_Boolean(FALSE)
    /\ (token_type = "BangEqual" /\ l.t # r.t) =>
           evaluate_output.val = Value_Boolean(TRUE)
    /\ (token_type = "EqualEqual" /\ l.t = "Nil") =>
           evaluate_output.val = Value_Boolean(r.t = "Nil")

\* C18: a binary operator on two values returns an error exactly when the
\* operand types do not fit it: `-`, `*`, `/`, `<`, `<=`, `>`, `>=` take two
\* numbers, `+` two numbers or two strings (which it concatenates), `==` and
\* `!=` take every pair; values of different variants are not equal and nil
\* equals only nil.
C18_BinaryOperandTypes ==
    (evaluate_output # NoEvaluation /\ evaluate_input[1].kind = "Binary"
     /\ evaluate_input[1].left.kind = "Literal"
     /\ evaluate_input[1].right.kind = "Literal") =>
        /\ evaluate_output.st \in {"ok", "err"}
        /\ evaluate_output.st = "ok" <=>
               Fits(evaluate_input[1].operator.token_type,
                    evaluate_input[1].left.value, evaluate_input[1].right.value)
        /\ evaluate_output.st = "ok" =>
               EqualityOfVariants(evaluate_input[1].operator.token_type,
                                  evaluate_input[1].left.value,
                                  evaluate_input[1].right.value)
        /\ (evaluate_output.st = "ok"
            /\ evaluate_input[1].operator.token_type = "Plus"
            /\ evaluate_input[1].left.value.t = "String") =>
               evaluate_output.val = Value_String(evaluate_input[1].left.value.s
                                                  \o evaluate_input[1].right.value.s)
        /\ environment = evaluate_output.scopes

\* `"s" + 1` returned the error of add
C18_Witness ==
    /\ evaluate_output # NoEvaluation
    /\ evaluate_input[1] = Expr_Binary(Expr_Literal(Value_String(<<"s">>)),
                                       WordToken("+", 1), Expr_Literal(Number(1)))
    /\ evaluate_output.st = "err"
    /\ evaluate_output.msg = AddError

-----------------------------------------------------------------------------
(***************************************************************************)
(* Properties of Interpreter::execute                                      *)
(***************************************************************************)
Bound(scopes, name) == \E i \in 1..Len(scopes) : name \in DOMAIN scopes[i]

\* the innermost scope with the name, for a name that is bound
Innermost(scopes, name) ==
    CHOOSE i \in 1..Len(scopes) :
        /\ name \in DOMAIN scopes[i]
        /\ \A j \in (i + 1)..Len(scopes) : name \notin DOMAIN scopes[j]

\* after differs from before in nothing but scope i binding name to v
OnlyBinding(before, after, i, name, v) ==
    /\ Len(after) = Len(before)
    /\ \A j \in 1..Len(before) : j # i => after[j] = before[j]
    /\ DOMAIN after[i] = DOMAIN before[i] \cup {name}
    /\ after[i][name] = v
    /\ \A x \in DOMAIN before[i] \ {name} : after[i][x] = before[i][x]

\* the value of a literal or of a bound variable in the scopes
ValueIn(e, scopes) ==
    IF e.kind = "Literal" THEN e.value
    ELSE scopes[Innermost(scopes, e.name.lexeme)][e.name.lexeme]

\* execute was called and returned
Executed ==
    /\ evaluate_output # NoEvaluation
    /\ evaluate_input[1].kind \in {"Var", "Expression", "Print"}

\* C21: `print n;` prints the value n has in the innermost scope that holds
\* n and changes nothing; `n = e;` puts the value of e into the innermost
\* scope that holds n and changes no other binding and no other scope;
\* `var n = e;` (or `var n;`, with nil) binds n in the innermost scope,
\* whether or not n was there, and changes no other binding and no other
\* scope.
C21_InnermostScope ==
    Executed =>
        /\ (evaluate_input[1].kind = "Print"
            /\ Bound(evaluate_output.scopes, evaluate_input[1].expr.name.lexeme)) =>
               /\ evaluate_output.st = "ok"
               /\ output = <<ValueIn(evaluate_input[1].expr, evaluate_output.scopes)>>
               /\ environment = evaluate_output.scopes
        /\ (evaluate_input[1].kind = "Expression"
            /\ Bound(evaluate_output.scopes, evaluate_input[1].expr.name.lexeme)) =>
               /\ evaluate_output.st = "ok"
               /\ OnlyBinding(evaluate_output.scopes, environment,
                              Innermost(evaluate_output.scopes,
                                        evaluate_input[1].expr.name.lexeme),
                              evaluate_input[1].expr.name.lexeme,
                              ValueIn(evaluate_input[1].expr.value,
                                      evaluate_output.scopes))
        /\ (evaluate_input[1].kind = "Var"
            /\ evaluate_input[1].initializer # <<FailingExpr>>) =>
               /\ evaluate_output.st = "ok"
               /\ OnlyBinding(evaluate_output.scopes, environment,
                              Len(evaluate_output.scopes),
                              evaluate_input[1].name.lexeme,
                              IF evaluate_input[1].initializer = <<>> THEN Value_Nil
                              ELSE ValueIn(evaluate_input[1].initializer[1],
                                           evaluate_output.scopes))

\* g is 1 in the global scope and nil in the second of three scopes: `g = 0;`
\* made it 0 in the second scope and left the global g at 1
C21_Witness ==
    /\ Executed
    /\ evaluate_input[1] =
           Stmt_Expression(Expr_Assign(WordToken("g", 1), Expr_Literal(Number(0))))
    /\ Len(evaluate_output.scopes) = 3
    /\ evaluate_output.scopes[2][<<"g">>] = Value_Nil
    /\ environment[2][<<"g">>] = Number(0)
    /\ environment[1][<<"g">>] = Number(1)
    /\ environment[3] = evaluate_output.scopes[3]

\* 1 .. n as numbers, from the number after k
CountFrom(k, n) == [i \in 1..(n - k) |-> Number(k + i)]

\* C22: a while loop evaluates its condition before every iteration, the
\* first included, and runs the body once for each truthy result, up to the
\* first falsy one; nil and false are the only falsy values.
\* `{ var a = v; while (a) { print a; a = nil; } }` prints v once when v is
\* not nil or false (0 and "" included) and nothing when it is;
\* `while ((g = g + 1) <= MaxCount) print g;` started with g = 1 prints
\* 2 .. MaxCount and leaves g at MaxCount + 1: one evaluation more than
\* iterations; `if (v) print 1; else print 0;` prints 1 for the same values v.
C22_WhileAndTruthiness ==
    evaluate_output # NoEvaluation =>
        /\ \A v \in EvaluateValues :
               /\ evaluate_input[1] = LoopOn(v) =>
                      /\ evaluate_output.st = "ok"
                      /\ output = IF Falsy(v) THEN <<>> ELSE <<v>>
                      /\ environment = evaluate_output.scopes
               /\ \A with_else \in BOOLEAN :
                      evaluate_input[1] = Choice(v, with_else) =>
                          /\ evaluate_output.st = "ok"
                          /\ output = CASE ~Falsy(v) -> <<Number(1)>>
                                        [] with_else -> <<Number(0)>>
                                        [] OTHER -> <<>>
        /\ (evaluate_input[1] = CountingLoop
            /\ Reads(evaluate_output.scopes, <<"g">>) = <<Number(1)>>) =>
               /\ evaluate_output.st = "ok"
               /\ output = CountFrom(1, MaxCount)
               /\ Reads(environment, <<"g">>) = <<Number(MaxCount + 1)>>

\* the loop on 0 printed 0 once
C22_Witness ==
    /\ evaluate_output # NoEvaluation
    /\ evaluate_input[1] = LoopOn(Number(0))
    /\ evaluate_output.st = "ok"
    /\ output = <<Number(0)>>

====
